---- MODULE Spec2Model ----
(***************************************************************************)
(* Model of the multi-shop Telegram bot of src/main.py: the in-memory      *)
(* UserCache, the category / product creation flows kept in the user       *)
(* sessions, and the documents the handlers read and write in the store.   *)
(*                                                                         *)
(* One action is one inbound event (a command, a button press or a text    *)
(* message) handled to completion: the application is built without        *)
(* concurrent updates, so handlers run one at a time.  Every call to the   *)
(* store or to the chat transport that the code lets fail is an input of   *)
(* the action: `read`/`write` say whether the store call succeeds and      *)
(* send[k] whether the k-th message the handler tries to send is           *)
(* delivered.  A handler is an operator from the state and these inputs    *)
(* to the state it leaves and the replies it delivers; its action applies  *)
(* it.                                                                     *)
(*                                                                         *)
(* A text is the sequence of its characters.  An optional value (a dict    *)
(* key that may be missing, a Python None) is the empty sequence or a      *)
(* one-element sequence.                                                   *)
(***************************************************************************)
EXTENDS Integers, Sequences, FiniteSets, TLC

\* ------------------------------------------------------------------ bounds
\* The store holds at most this many category / product documents.
MaxCategories == 2
MaxProducts == 1
MaxDepartments == 2
MaxOrders == 2

\* ------------------------------------------------------------ optional values
None == <<>>
Some(v) == <<v>>
Get(o, default) == IF o = None THEN default ELSE o[1]

\* ---------------------------------------------------------------------- texts
UpperAlpha == <<"A","B","C","D","E","F","G","H","I","J","K","L","M","N","O","P","Q","R","S","T","U","V","W","X","Y","Z">>
LowerAlpha == <<"a","b","c","d","e","f","g","h","i","j","k","l","m","n","o","p","q","r","s","t","u","v","w","x","y","z">>
Digits == <<"0","1","2","3","4","5","6","7","8","9">>

\* str.lower() on one character and on a text
LowerChar(c) ==
    IF \E i \in 1..26 : UpperAlpha[i] = c
    THEN LowerAlpha[CHOOSE i \in 1..26 : UpperAlpha[i] = c]
    ELSE c
Lower(t) == [i \in 1..Len(t) |-> LowerChar(t[i])]

\* str.strip(): leading and trailing blanks removed
RECURSIVE LStrip(_)
LStrip(t) == IF t # <<>> /\ Head(t) = " " THEN LStrip(Tail(t)) ELSE t
RECURSIVE RStrip(_)
RStrip(t) == IF t # <<>> /\ t[Len(t)] = " " THEN RStrip(SubSeq(t, 1, Len(t) - 1)) ELSE t
Strip(t) == RStrip(LStrip(t))

IsDigit(c) == \E i \in 1..10 : Digits[i] = c
DigitVal(c) == (CHOOSE i \in 1..10 : Digits[i] = c) - 1
AllDigits(t) == \A i \in 1..Len(t) : IsDigit(t[i])
RECURSIVE DigitsVal(_)
DigitsVal(t) == IF t = <<>> THEN 0 ELSE 10 * DigitsVal(SubSeq(t, 1, Len(t) - 1)) + DigitVal(t[Len(t)])

\* an optional sign split off a numeral
HasSign(t) == t # <<>> /\ Head(t) \in {"+", "-"}
Unsigned(t) == IF HasSign(t) THEN Tail(t) ELSE t
Sign(t) == IF t # <<>> /\ Head(t) = "-" THEN -1 ELSE 1

\* int(text): optional sign and at least one digit, anything else ValueError
\* (ok = FALSE).
ParseInt(t) ==
    LET s == Strip(t)
        d == Unsigned(s)
    IN  IF d # <<>> /\ AllDigits(d)
        THEN [ok |-> TRUE, v |-> Sign(s) * DigitsVal(d)]
        ELSE [ok |-> FALSE, v |-> 0]

\* float(text).  A float is [nan, v], v in hundredths; the texts the events
\* draw from carry at most two decimals, so v is exact.  "nan" (any case,
\* signed or not) parses to the float NaN; anything else that is not
\* [sign] digits [. digits] raises ValueError (ok = FALSE).
DotAt(t) == IF \E i \in 1..Len(t) : t[i] = "." THEN CHOOSE i \in 1..Len(t) : t[i] = "." /\ \A j \in 1..(i - 1) : t[j] # "." ELSE 0
Hundredths(f) == IF Len(f) = 0 THEN 0 ELSE IF Len(f) = 1 THEN 10 * DigitVal(f[1]) ELSE 10 * DigitVal(f[1]) + DigitVal(f[2])
ParseFloat(t) ==
    LET s == Strip(t)
        d == Unsigned(s)
        p == DotAt(d)
        whole == IF p = 0 THEN d ELSE SubSeq(d, 1, p - 1)
        frac == IF p = 0 THEN <<>> ELSE SubSeq(d, p + 1, Len(d))
    IN  IF Lower(d) = <<"n","a","n">>
        THEN [ok |-> TRUE, nan |-> TRUE, v |-> 0]
        ELSE IF AllDigits(whole) /\ AllDigits(frac) /\ Len(whole) + Len(frac) > 0
        THEN [ok |-> TRUE, nan |-> FALSE, v |-> Sign(s) * (100 * DigitsVal(whole) + Hundredths(frac))]
        ELSE [ok |-> FALSE, nan |-> FALSE, v |-> 0]

\* `price <= 0` on a float: every comparison with NaN is false
FloatLeqZero(x) == ~x.nan /\ x.v <= 0

\* the texts the events draw from
T_Drinks == <<"D","r","i","n","k","s">>
T_Latte == <<"L","a","t","t","e">>
T_skip == <<"s","k","i","p">>
T_Skip == <<"S","k","i","p">>
T_4_50 == <<"4",".","5","0">>
T_20 == <<"2","0">>
T_0 == <<"0">>
T_minus1 == <<"-","1">>
T_nan == <<"n","a","n">>
T_empty == <<>>
\* a message of one blank
T_blank == <<" ">>
\* the default glyph, one character
DefaultIcon == <<"[box]">>

\* ---------------------------------------------------------------- the world
Users == {"u1", "u2"}
Shops == {"s1", "s2"}
\* shops collection: s1 is owned by the account "uidA", s2 by "uidB"
db_shops == [s \in Shops |-> [ownerId |-> IF s = "s1" THEN "uidA" ELSE "uidB"]]
\* departments collection, owner role: u2 is the owner-role staff of s1
db_owner_departments == <<[shopId |-> "s1", role |-> "owner", telegramChatId |-> "u2"]>>

VARIABLES
    users,           \* UserCache.users: user -> optional profile
    user_sessions,   \* UserCache.user_sessions: user -> flow kind -> optional flow
    shop_owners,     \* TelegramBot.shop_owners: shop -> optional user
    db_users,        \* store, users collection: user -> optional document
    categories,      \* store, categories collection in creation order
    products,        \* store, products collection in creation order
    n_at_start,      \* history: user -> the number of categories the shop of the
                     \* user's category flow had when the flow was started
    departments,     \* store, departments collection in stream order
    orders,          \* store, orders collection in creation order
    last_order       \* history: the product, the replies and the notification
                     \* of the last order request

vars == <<users, user_sessions, shop_owners, db_users, categories, products, n_at_start, departments, orders, last_order>>

NoSession == [adding_category |-> None, adding_product |-> None]

\* ---------------------------------------------------------------- UserCache
\* dict.get(key, default)
DictGet(d, k, default) == IF k \in DOMAIN d THEN d[k] ELSE default

add_user(us, u, user_data) ==
    [us EXCEPT ![u] = Some([first_name |-> DictGet(user_data, "first_name", None),
                            last_shop_id |-> DictGet(user_data, "last_shop_id", None),
                            shops |-> DictGet(user_data, "shops", {})])]

get_user(us, u) == us[u]

\* a faulty variant: a second visit takes the entry away again
update_shop_interaction_toggle(us, u, s) ==
    IF us[u] # None
    THEN [us EXCEPT ![u] = Some([us[u][1] EXCEPT !.last_shop_id = Some(s),
                                                  !.shops = IF s \in @ THEN @ \ {s} ELSE @ \cup {s}])]
    ELSE us

update_shop_interaction(us, u, s) ==
    IF us[u] # None
    THEN [us EXCEPT ![u] = Some([us[u][1] EXCEPT !.last_shop_id = Some(s), !.shops = @ \cup {s}])]
    ELSE us

set_user_session(ss, u, key, value) == [ss EXCEPT ![u][key] = Some(value)]
get_user_session(ss, u, key) == ss[u][key]
\* a faulty variant: every clear wipes all flows of the user
clear_user_session_all(ss, u, key) == [ss EXCEPT ![u] = NoSession]

\* a faulty variant: the flow kind is cleared for every user
clear_user_session_everyone(ss, u, key) ==
    IF key = None THEN [v \in DOMAIN ss |-> NoSession] ELSE [v \in DOMAIN ss |-> [ss[v] EXCEPT ![key[1]] = None]]

\* key = None: called without a key, which clears every flow of the user
clear_user_session(ss, u, key) ==
    IF key = None THEN [ss EXCEPT ![u] = NoSession] ELSE [ss EXCEPT ![u][key[1]] = None]

\* ------------------------------------------------------------------ ownership
\* int(telegram_id) succeeds
IsTelegramId(x) == x \in Users

\* the loop of load_shop_owners over the owner-role documents: each one
\* assigns its shop, the entries of the table it does not name stay
RECURSIVE LoadOwners(_, _)
LoadOwners(table, depts) ==
    IF depts = <<>> THEN table
    ELSE LET d == Head(depts)
         IN  LoadOwners(IF d.role = "owner" /\ IsTelegramId(d.telegramChatId)
                        THEN [table EXCEPT ![d.shopId] = Some(d.telegramChatId)]
                        ELSE table,
                        Tail(depts))

\* read = FALSE: the query raises, which is logged and leaves the table
load_shop_owners(table, depts, read) == IF read THEN LoadOwners(table, depts) ELSE table

\* reload_shop_owners
reload_shop_owners(table, depts, read) == load_shop_owners(table, depts, read)

is_shop_owner_by_telegram_id(u, s) == s \in DOMAIN shop_owners /\ shop_owners[s] = Some(u)

\* a faulty variant: any linked account owns every shop
is_shop_owner_any_linked(u, s, read) ==
    /\ read
    /\ db_users[u] # None
    /\ db_users[u][1].firebase_uid # None
    /\ s \in DOMAIN db_shops

\* read = FALSE: the store lookup raises, which the function answers with False
is_shop_owner(u, s, read) ==
    /\ read
    /\ db_users[u] # None
    /\ db_users[u][1].firebase_uid # None
    /\ s \in DOMAIN db_shops
    /\ Some(db_shops[s].ownerId) = db_users[u][1].firebase_uid

\* a faulty variant: everybody passes
OwnerCheck_anyone(u, s, read) == TRUE

\* the check both add handlers start with
OwnerCheck(u, s, read) == is_shop_owner(u, s, read) \/ is_shop_owner_by_telegram_id(u, s)

\* ---------------------------------------------------------------- store access
save_user_to_firebase(db, u, ok) ==
    IF ok /\ db[u] = None
    THEN [db EXCEPT ![u] = Some([firebase_uid |-> None, last_shop_id |-> None, shops |-> {}])]
    ELSE db

\* update() of a missing document raises, which is logged and dropped
update_user_shop_interaction(db, u, s, ok) ==
    IF ok /\ db[u] # None
    THEN [db EXCEPT ![u] = Some([db[u][1] EXCEPT !.last_shop_id = Some(s), !.shops = @ \cup {s}])]
    ELSE db

\* the indices (document ids) of SelectSeq, in stream order
RECURSIVE IdsWhere(_, _, _)
IdsWhere(docs, s, i) ==
    IF i > Len(docs) THEN <<>>
    ELSE IF docs[i].shopId = s THEN <<i>> \o IdsWhere(docs, s, i + 1)
    ELSE IdsWhere(docs, s, i + 1)

\* a faulty variant: the id is inserted before its equals
RECURSIVE InsertByOrder_before_equals(_, _, _)
InsertByOrder_before_equals(docs, sorted, i) ==
    IF sorted = <<>> THEN <<i>>
    ELSE IF docs[i].order <= docs[Head(sorted)].order THEN <<i>> \o sorted
    ELSE <<Head(sorted)>> \o InsertByOrder_before_equals(docs, Tail(sorted), i)

\* insertion of one id into a list sorted by the order field, after its equals
RECURSIVE InsertByOrder(_, _, _)
InsertByOrder(docs, sorted, i) ==
    IF sorted = <<>> THEN <<i>>
    ELSE IF docs[i].order < docs[Head(sorted)].order THEN <<i>> \o sorted
    ELSE <<Head(sorted)>> \o InsertByOrder(docs, Tail(sorted), i)
RECURSIVE SortByOrder(_, _)
SortByOrder(docs, ids) ==
    IF ids = <<>> THEN <<>>
    ELSE InsertByOrder(docs, SortByOrder(docs, SubSeq(ids, 1, Len(ids) - 1)), ids[Len(ids)])

\* the ids of the shop's categories sorted by order; [] when the read fails
get_shop_categories(cats, s, read) ==
    IF read THEN SortByOrder(cats, IdsWhere(cats, s, 1)) ELSE <<>>

\* ------------------------------------------------------------------- replies
\* What the transport does with the messages of one event: send[k] says
\* whether the k-th message the handler tries to send is delivered.  A handler
\* stops sending at its first delivered message, so the outcomes that differ
\* are the numbers of sends that fail before one is delivered.
SendOutcomes == {[k \in 1..3 |-> k > nf] : nf \in 0..3}

\* A send of `tag` as attempt k, inside `layers` nested try blocks whose except
\* clauses each answer with the error message first.  depth counts the sends
\* that failed: the except clause at nesting depth d (1 = innermost) runs the
\* statements after its send exactly when depth = d and nothing is raised.
\* raised: the exception leaves the top-level handler.
RECURSIVE Chain(_, _, _, _, _)
Chain(send, k, tag, layers, depth) ==
    IF send[k] THEN [replies |-> <<tag>>, raised |-> FALSE, depth |-> depth]
    ELSE IF layers = 0 THEN [replies |-> <<>>, raised |-> TRUE, depth |-> depth + 1]
    ELSE Chain(send, k + 1, "error", layers - 1, depth + 1)

\* a handler that sends nothing
NoReply == [replies |-> <<>>, raised |-> FALSE, depth |-> 0]

\* the outcome of a flow step: the flow left in the session, the document
\* added to the store, the replies delivered, whether an exception is raised
Outcome(flow, add, c) == [flow |-> flow, add |-> add, replies |-> c.replies, raised |-> c.raised]

\* ------------------------------------------------------------ category flow
NewCategoryFlow(s) == [shop_id |-> s, step |-> "name", name |-> None, description |-> None, icon |-> None]

\* a faulty variant: every new category goes first
next_order_zero(existing) == 0

\* the order field of a new category: the number of categories listed
next_order(existing) == Len(existing)

\* a faulty variant: the except clause does not clear the flow
CommitFailed_keeps_flow(flow, send, outerClears) ==
    Outcome(Some(flow), None, Chain(send, 1, "error", 1, 0))

\* the except clause of create_category and of create_product: the error
\* reply first, then the clear.  outerClears: the enclosing try clears too
\* (process_*_creation) or does not (button_callback).
CommitFailed(flow, send, outerClears) ==
    LET c == Chain(send, 1, "error", 1, 0)
        cleared == ~c.raised /\ (c.depth = 0 \/ outerClears)
    IN  Outcome(IF cleared THEN None ELSE Some(flow), None, c)

\* the add succeeded: the flow is cleared, then the success reply is sent
Committed(doc, send) == Outcome(None, Some(doc), Chain(send, 1, "created", 2, 0))

\* a faulty variant: a missing name is written as the empty name
create_category_default_name(flow, cats, read, write, send, outerClears) ==
    LET existing == get_shop_categories(cats, flow.shop_id, read)
    IN  IF ~write
        THEN CommitFailed(flow, send, outerClears)
        ELSE Committed([name |-> Get(flow.name, T_empty),
                        description |-> Get(flow.description, <<>>),
                        icon |-> Get(flow.icon, DefaultIcon),
                        order |-> next_order(existing),
                        shopId |-> flow.shop_id], send)

\* create_category called with the session dict `flow`
create_category(flow, cats, read, write, send, outerClears) ==
    LET existing == get_shop_categories(cats, flow.shop_id, read)
    IN  IF flow.name = None \/ ~write
        THEN \* KeyError on session_data['name'], or the add raises
             CommitFailed(flow, send, outerClears)
        ELSE Committed([name |-> flow.name[1],
                        description |-> Get(flow.description, <<>>),
                        icon |-> Get(flow.icon, DefaultIcon),
                        order |-> next_order(existing),
                        shopId |-> flow.shop_id], send)

\* a step of process_*_creation that stores flow1 and replies `tag`; when the
\* reply fails the except clause sends the error reply, then clears
StepReply(flow1, send, tag) ==
    LET c == Chain(send, 1, tag, 1, 0)
    IN  Outcome(IF c.depth = 1 /\ ~c.raised THEN None ELSE Some(flow1), None, c)
\* a step that stores flow1 and then raises KeyError building its reply
StepKeyError(flow1, send) ==
    LET c == Chain(send, 1, "error", 0, 0)
    IN  Outcome(IF c.raised THEN Some(flow1) ELSE None, None, c)

\* a faulty variant: the keyword in lower case only
IsSkip_lower_case_only(t) == t = T_skip

\* text.lower() == 'skip'
IsSkip(t) == Lower(t) = T_skip

process_category_creation(flow, t, cats, read, write, send) ==
    CASE flow.step = "name" ->
           StepReply([flow EXCEPT !.name = Some(t), !.step = "description"], send, "ask_description")
      [] flow.step = "description" ->
           LET flow1 == [flow EXCEPT !.description = IF IsSkip(t) THEN @ ELSE Some(t), !.step = "icon"]
           IN  IF flow1.name = None THEN StepKeyError(flow1, send)
               ELSE StepReply(flow1, send, "ask_icon")
      [] flow.step = "icon" ->
           create_category([flow EXCEPT !.icon = Some(IF IsSkip(t) THEN DefaultIcon ELSE t)],
                           cats, read, write, send, TRUE)
      [] OTHER -> Outcome(Some(flow), None, NoReply)

\* ------------------------------------------------------------- product flow
\* a faulty variant: the category name is not taken into the flow
NewProductFlow_unnamed(s, cid, cname) ==
    [shop_id |-> s, category_id |-> cid, category_name |-> T_empty, step |-> "name",
     name |-> None, description |-> None, price |-> None, stock |-> None]

NewProductFlow(s, cid, cname) ==
    [shop_id |-> s, category_id |-> cid, category_name |-> cname, step |-> "name",
     name |-> None, description |-> None, price |-> None, stock |-> None]

\* create_product called from the stock step of process_product_creation
create_product(flow, write, send) ==
    IF flow.name = None \/ flow.price = None \/ flow.stock = None \/ ~write
    THEN CommitFailed(flow, send, TRUE)
    ELSE Committed([name |-> flow.name[1],
                    description |-> Get(flow.description, <<>>),
                    price |-> flow.price[1],
                    stock |-> flow.stock[1],
                    category |-> flow.category_name,
                    isActive |-> TRUE,
                    shopId |-> flow.shop_id], send)

\* faulty variants: the sign of the number is not looked at
PriceRejected_unparsed(t) == ~ParseFloat(t).ok
StockRejected_unparsed(t) == ~ParseInt(t).ok

\* the price step raises ValueError: float() fails or price <= 0
PriceRejected(t) == ~ParseFloat(t).ok \/ FloatLeqZero(ParseFloat(t))
\* the stock step raises ValueError: int() fails or stock < 0
StockRejected(t) == ~ParseInt(t).ok \/ ParseInt(t).v < 0

process_product_creation(flow, t, write, send) ==
    CASE flow.step = "name" ->
           StepReply([flow EXCEPT !.name = Some(t), !.step = "description"], send, "ask_description")
      [] flow.step = "description" ->
           LET flow1 == [flow EXCEPT !.description = IF IsSkip(t) THEN @ ELSE Some(t), !.step = "price"]
           IN  IF flow1.name = None THEN StepKeyError(flow1, send)
               ELSE StepReply(flow1, send, "ask_price")
      [] flow.step = "price" ->
           IF PriceRejected(t) THEN StepReply(flow, send, "invalid_price")
           ELSE LET pf == ParseFloat(t)
                    flow1 == [flow EXCEPT !.price = Some([nan |-> pf.nan, v |-> pf.v]), !.step = "stock"]
                IN  IF flow1.name = None THEN StepKeyError(flow1, send)
                    ELSE StepReply(flow1, send, "ask_stock")
      [] flow.step = "stock" ->
           IF StockRejected(t) THEN StepReply(flow, send, "invalid_stock")
           ELSE create_product([flow EXCEPT !.stock = Some(ParseInt(t).v)], write, send)
      [] OTHER -> Outcome(Some(flow), None, NoReply)

\* ----------------------------------------------------------------- handlers
\* What a handler leaves: the cache and the users collection (navigation), or
\* the sessions and the two collections (flows), with the replies delivered.
NavResult(us, db, c) == [users |-> us, db_users |-> db, replies |-> c.replies, raised |-> c.raised]
FlowResult(ss, cats, prods, c) ==
    [sessions |-> ss, categories |-> cats, products |-> prods, replies |-> c.replies, raised |-> c.raised]

\* get_shop_data: the document, None when it is missing or the read fails
get_shop_data(s, read) == IF read /\ s \in DOMAIN db_shops THEN Some(s) ELSE None

\* send_shop_menu inside `outer` enclosing try blocks: the visit is recorded in
\* the cache and in the store, then the menu is sent.  The session is not
\* touched.
send_shop_menu(us, db, u, s, write, send, outer) ==
    NavResult(update_shop_interaction(us, u, s),
              update_user_shop_interaction(db, u, s, write),
              Chain(send, 1, "shop_menu", 1 + outer, 0))

\* the user_data start_command builds: the names only
StartUserData(u) == [first_name |-> Some(u)]

start_command(u, read, write, send) ==
    LET cached == add_user(users, u, StartUserData(u))
        db1 == save_user_to_firebase(db_users, u, write)
        last_shop == get_user(cached, u)[1].last_shop_id
        shop_data == IF last_shop = None THEN None ELSE get_shop_data(last_shop[1], read)
    IN  IF shop_data # None
        THEN send_shop_menu(cached, db1, u, shop_data[1], write, send, 0)
        ELSE \* send_welcome_message lists the active shops
             NavResult(cached, db1, IF read THEN Chain(send, 1, "welcome", 1, 0) ELSE Chain(send, 1, "error", 0, 0))

\* button shop_<s>: the shop buttons of the welcome list, Refresh Menu, the
\* Back buttons, and the Cancel button of both flow prompts
button_shop(u, s, read, write, send) ==
    IF get_shop_data(s, read) # None
    THEN send_shop_menu(users, db_users, u, s, write, send, 1)
    ELSE NavResult(users, db_users, Chain(send, 1, "shop_not_found", 1, 0))

\* a faulty variant: a flow that exists is resumed
handle_add_category_resuming(u, s, read, send) ==
    IF ~OwnerCheck(u, s, read)
    THEN FlowResult(user_sessions, categories, products, Chain(send, 1, "denied", 2, 0))
    ELSE FlowResult(IF get_user_session(user_sessions, u, "adding_category") # None THEN user_sessions
                    ELSE set_user_session(user_sessions, u, "adding_category", NewCategoryFlow(s)),
                    categories, products, Chain(send, 1, "ask_name", 2, 0))

handle_add_category(u, s, read, send) ==
    IF ~OwnerCheck(u, s, read)
    THEN FlowResult(user_sessions, categories, products, Chain(send, 1, "denied", 2, 0))
    ELSE FlowResult(set_user_session(user_sessions, u, "adding_category", NewCategoryFlow(s)),
                    categories, products, Chain(send, 1, "ask_name", 2, 0))

\* handle_add_product; cid = None for the button add_product_<s>, which only
\* offers the categories, Some(id) for add_product_category_<s>_<id>
handle_add_product(u, s, cid, read, cread, send) ==
    LET cats == get_shop_categories(categories, s, cread)
        tag == IF ~OwnerCheck(u, s, read) THEN "denied"
               ELSE IF cats = <<>> THEN "no_categories"
               ELSE IF cid = None THEN "choose_category"
               ELSE IF ~\E i \in 1..Len(cats) : cats[i] = cid[1] THEN "category_not_found"
               ELSE "ask_name"
    IN  FlowResult(IF tag = "ask_name"
                   THEN set_user_session(user_sessions, u, "adding_product",
                                         NewProductFlow(s, cid[1], categories[cid[1]].name))
                   ELSE user_sessions,
                   categories, products, Chain(send, 1, tag, 2, 0))

\* a faulty variant: the flow that wrote a document stays in the session
AfterStep_keeps_flow(u, key, o) ==
    [sessions |-> IF o.add # None THEN user_sessions ELSE [user_sessions EXCEPT ![u][key] = o.flow],
     categories |-> IF key = "adding_category" /\ o.add # None THEN Append(categories, o.add[1]) ELSE categories,
     products |-> IF key = "adding_product" /\ o.add # None THEN Append(products, o.add[1]) ELSE products,
     replies |-> o.replies, raised |-> o.raised]

\* what a flow step leaves in the state
AfterStep(u, key, o) ==
    [sessions |-> IF o.flow = None THEN clear_user_session(user_sessions, u, Some(key))
                  ELSE set_user_session(user_sessions, u, key, o.flow[1]),
     categories |-> IF key = "adding_category" /\ o.add # None THEN Append(categories, o.add[1]) ELSE categories,
     products |-> IF key = "adding_product" /\ o.add # None THEN Append(products, o.add[1]) ELSE products,
     replies |-> o.replies, raised |-> o.raised]

\* a faulty variant: the product flow first
handle_text_message_product_first(u, raw, read, write, send) ==
    LET text == Strip(raw)
        adding_category == get_user_session(user_sessions, u, "adding_category")
        adding_product == get_user_session(user_sessions, u, "adding_product")
    IN  IF adding_product # None
        THEN AfterStep(u, "adding_product", process_product_creation(adding_product[1], text, write, send))
        ELSE IF adding_category # None
        THEN AfterStep(u, "adding_category",
                       process_category_creation(adding_category[1], text, categories, read, write, send))
        ELSE FlowResult(user_sessions, categories, products, Chain(send, 1, "use_start", 0, 0))

\* a text message that is not a command: the category flow first
handle_text_message(u, raw, read, write, send) ==
    LET text == Strip(raw)
        adding_category == get_user_session(user_sessions, u, "adding_category")
        adding_product == get_user_session(user_sessions, u, "adding_product")
    IN  IF adding_category # None
        THEN AfterStep(u, "adding_category",
                       process_category_creation(adding_category[1], text, categories, read, write, send))
        ELSE IF adding_product # None
        THEN AfterStep(u, "adding_product", process_product_creation(adding_product[1], text, write, send))
        ELSE FlowResult(user_sessions, categories, products, Chain(send, 1, "use_start", 0, 0))

\* button skip_category_desc_<s>
button_skip_category_desc(u, s, send) ==
    LET adding_category == get_user_session(user_sessions, u, "adding_category")
    IN  IF adding_category = None THEN FlowResult(user_sessions, categories, products, NoReply)
        ELSE LET flow1 == [adding_category[1] EXCEPT !.step = "icon"]
             IN  FlowResult(set_user_session(user_sessions, u, "adding_category", flow1), categories, products,
                            IF flow1.name = None THEN Chain(send, 1, "error", 0, 0)
                            ELSE Chain(send, 1, "ask_icon", 1, 0))

\* a faulty variant: the shop of the payload is the shop written to
button_skip_category_icon_payload_shop(u, s, read, write, send) ==
    LET adding_category == get_user_session(user_sessions, u, "adding_category")
    IN  IF adding_category = None THEN FlowResult(user_sessions, categories, products, NoReply)
        ELSE AfterStep(u, "adding_category",
                       create_category([adding_category[1] EXCEPT !.icon = Some(DefaultIcon), !.shop_id = s],
                                       categories, read, write, send, FALSE))

\* button skip_category_icon_<s>
button_skip_category_icon(u, s, read, write, send) ==
    LET adding_category == get_user_session(user_sessions, u, "adding_category")
    IN  IF adding_category = None THEN FlowResult(user_sessions, categories, products, NoReply)
        ELSE AfterStep(u, "adding_category",
                       create_category([adding_category[1] EXCEPT !.icon = Some(DefaultIcon)],
                                       categories, read, write, send, FALSE))

\* button skip_product_desc_<s>
button_skip_product_desc(u, s, send) ==
    LET adding_product == get_user_session(user_sessions, u, "adding_product")
    IN  IF adding_product = None THEN FlowResult(user_sessions, categories, products, NoReply)
        ELSE LET flow1 == [adding_product[1] EXCEPT !.step = "price"]
             IN  FlowResult(set_user_session(user_sessions, u, "adding_product", flow1), categories, products,
                            IF flow1.name = None THEN Chain(send, 1, "error", 0, 0)
                            ELSE Chain(send, 1, "ask_price", 1, 0))

\* ------------------------------------------------------------------- orders
\* a faulty variant: the stock is not looked at
Unavailable_stock_ignored(p) == ~p.isActive

\* not product_data.get('isActive', True) or product_data.get('stock', 0) <= 0
Unavailable(p) == ~p.isActive \/ p.stock <= 0

\* a faulty variant: the order total is left at zero
order_data_no_total(u, s, pid, p) ==
    [shopId |-> s, telegramId |-> u,
     items |-> <<[productId |-> pid, productName |-> p.name, quantity |-> 1, price |-> p.price, total |-> p.price]>>,
     total |-> [nan |-> FALSE, v |-> 0], status |-> "pending"]

\* the order document: one line item of quantity 1 at the product's price
order_data(u, s, pid, p) ==
    [shopId |-> s, telegramId |-> u,
     items |-> <<[productId |-> pid, productName |-> p.name, quantity |-> 1, price |-> p.price, total |-> p.price]>>,
     total |-> p.price, status |-> "pending"]

\* a faulty variant: an order takes one unit of the stock
ProductsAfterOrder_decrement(prods, pid) == [prods EXCEPT ![pid].stock = @ - 1]

\* the products collection after an order: the handler writes to the orders
\* collection only
ProductsAfterOrder(prods, pid) == prods

\* the telegramChatId of the first cashier department of shop s, from the i-th
\* document on
RECURSIVE CashierChat(_, _, _)
CashierChat(depts, s, i) ==
    IF i > Len(depts) THEN None
    ELSE IF depts[i].shopId = s /\ depts[i].role = "cashier" THEN Some(depts[i].telegramChatId)
    ELSE CashierChat(depts, s, i + 1)

\* a faulty variant: a notification that cannot be sent raises
notify_shop_about_order_raising(depts, s, nread, nsend) ==
    LET chat == IF nread THEN CashierChat(depts, s, 1) ELSE None
    IN  [to |-> IF nsend THEN chat ELSE None, sent_to |-> chat, raised |-> chat = None \/ ~nsend]

\* nread: the departments query answers; nsend: the message to the cashier
\* chat is delivered.  Every exception is logged and dropped.  sent_to: the
\* chat the message is sent to, to: the chat it is delivered to.
notify_shop_about_order(depts, s, nread, nsend) ==
    LET chat == IF nread THEN CashierChat(depts, s, 1) ELSE None
    IN  [to |-> IF nsend THEN chat ELSE None, sent_to |-> chat, raised |-> FALSE]

\* notify_shop_about_order is not called
NotCalled == [to |-> None, sent_to |-> None, raised |-> FALSE]

\* What an order request leaves: the two collections, the replies delivered
\* to the customer, the cashier chat notified, the cashier chat a notification
\* was sent to.
OrderResult(ords, prods, n, c) ==
    [orders |-> ords, products |-> prods, notified |-> n.to, sent_to |-> n.sent_to,
     replies |-> c.replies, raised |-> c.raised]

\* button order_<s>_<pid>.  read: the product lookup answers; chat: get_chat
\* answers; write: the order is added; send: the replies to the customer.
handle_order_request(ords, prods, depts, u, s, pid, read, chat, write, send, nread, nsend) ==
    IF ~read THEN OrderResult(ords, prods, NotCalled, Chain(send, 1, "error", 1, 0))
    ELSE IF pid \notin 1..Len(prods) THEN OrderResult(ords, prods, NotCalled, Chain(send, 1, "product_not_found", 2, 0))
    ELSE IF Unavailable(prods[pid]) THEN OrderResult(ords, prods, NotCalled, Chain(send, 1, "unavailable", 2, 0))
    ELSE IF ~chat \/ ~write THEN OrderResult(ords, prods, NotCalled, Chain(send, 1, "error", 1, 0))
    ELSE LET saved == Append(ords, order_data(u, s, pid, prods[pid]))
             kept == ProductsAfterOrder(prods, pid)
             n == notify_shop_about_order(depts, s, nread, nsend)
         IN  IF ~send[1] THEN OrderResult(saved, kept, NotCalled, Chain(send, 1, "confirmed", 2, 0))
             ELSE IF n.raised
                  THEN OrderResult(saved, kept, n,
                                   [Chain(send, 2, "error", 1, 0) EXCEPT !.replies = <<"confirmed">> \o @])
             ELSE OrderResult(saved, kept, n, Chain(send, 1, "confirmed", 2, 0))

NoOrderRequest == [product |-> 0, replies |-> <<>>, notified |-> None]

\* ------------------------------------------------------------------ screens
\* a faulty variant: sold-out products are offered too
Offered_sold_out(p, s, name) == p.shopId = s /\ p.category = name /\ p.isActive

\* the product is listed on the screen of the category called name of shop s:
\* the store filters by shopId and category string, the loop by isActive and
\* stock
Offered(p, s, name) == p.shopId = s /\ p.category = name /\ p.isActive /\ p.stock > 0

\* the ids of the products listed, in stream order, from the i-th document on
RECURSIVE ProductsOffered(_, _, _, _)
ProductsOffered(prods, s, name, i) ==
    IF i > Len(prods) THEN <<>>
    ELSE IF Offered(prods[i], s, name) THEN <<i>> \o ProductsOffered(prods, s, name, i + 1)
    ELSE ProductsOffered(prods, s, name, i + 1)

\* What a screen leaves: the cache and the users collection, the product
\* buttons shown, the replies delivered.
ScreenResult(us, db, offered, c) ==
    [users |-> us, db_users |-> db, offered |-> offered, replies |-> c.replies, raised |-> c.raised]

\* button category_<s>_<cid>: the products of a category
send_category_products(u, s, cid, read, send) ==
    IF ~read THEN ScreenResult(users, db_users, <<>>, Chain(send, 1, "error", 1, 0))
    ELSE IF cid \notin DOMAIN categories
    THEN ScreenResult(users, db_users, <<>>, Chain(send, 1, "category_not_found", 2, 0))
    ELSE LET c == Chain(send, 1, "category_products", 2, 0)
         IN  ScreenResult(users, db_users,
                          IF send[1] THEN ProductsOffered(products, s, categories[cid].name, 1) ELSE <<>>, c)

\* button product_<s>_<pid>: the details of a product, with the order button
\* when it is available
send_product_details(u, s, pid, read, send) ==
    IF ~read THEN ScreenResult(users, db_users, <<>>, Chain(send, 1, "error", 1, 0))
    ELSE IF pid \notin DOMAIN products
    THEN ScreenResult(users, db_users, <<>>, Chain(send, 1, "product_not_found", 2, 0))
    ELSE LET c == Chain(send, 1, "product_details", 2, 0)
         IN  ScreenResult(users, db_users,
                          IF send[1] /\ ~Unavailable(products[pid]) THEN <<pid>> ELSE <<>>, c)

\* ------------------------------------------------------------------- events
\* a navigation handler applied
Navigated(r) ==
    /\ users' = r.users
    /\ db_users' = r.db_users
    /\ UNCHANGED <<user_sessions, shop_owners, categories, products, n_at_start, departments, orders, last_order>>

\* a flow handler applied; the flows fill the store up to MaxCategories /
\* MaxProducts documents
Applied(r) ==
    /\ Len(r.categories) <= MaxCategories \/ r.categories = categories
    /\ Len(r.products) <= MaxProducts \/ r.products = products
    /\ user_sessions' = r.sessions
    /\ categories' = r.categories
    /\ products' = r.products
    /\ UNCHANGED <<users, shop_owners, db_users, departments, orders, last_order>>
\* the history lasts as long as the flow it describes
Handled(r) ==
    /\ Applied(r)
    /\ n_at_start' = [u \in Users |-> IF r.sessions[u].adding_category = None THEN 0 ELSE n_at_start[u]]

\* the number of categories the store holds for a shop
CountFor(cats, s) == Len(IdsWhere(cats, s, 1))

StartCommand(u, read, write, send) == Navigated(start_command(u, read, write, send))
ShopSelected(u, s, read, write, send) == Navigated(button_shop(u, s, read, write, send))
AddCategory(u, s, read, send) ==
    /\ Applied(handle_add_category(u, s, read, send))
    /\ n_at_start' = [v \in Users |->
          IF handle_add_category(u, s, read, send).sessions[v].adding_category = None THEN 0
          ELSE IF v = u /\ OwnerCheck(u, s, read) THEN CountFor(categories, s)
          ELSE n_at_start[v]]
AddProduct(u, s, read, cread, send) == Handled(handle_add_product(u, s, None, read, cread, send))
AddProductCategory(u, s, cid, read, cread, send) == Handled(handle_add_product(u, s, Some(cid), read, cread, send))
TextMessage(u, t, read, write, send) == Handled(handle_text_message(u, t, read, write, send))
SkipCategoryDesc(u, s, send) == Handled(button_skip_category_desc(u, s, send))
SkipCategoryIcon(u, s, read, write, send) == Handled(button_skip_category_icon(u, s, read, write, send))
SkipProductDesc(u, s, send) == Handled(button_skip_product_desc(u, s, send))

OrderRequest(u, s, pid, read, chat, write, send, nread, nsend) ==
    LET r == handle_order_request(orders, products, departments, u, s, pid, read, chat, write, send, nread, nsend)
    IN  /\ Len(r.orders) <= MaxOrders
        /\ orders' = r.orders
        /\ products' = r.products
        /\ last_order' = [product |-> pid, replies |-> r.replies, notified |-> r.notified]
        /\ UNCHANGED <<users, user_sessions, shop_owners, db_users, categories, n_at_start, departments>>

CategorySelected(u, s, cid, read, send) == Navigated(send_category_products(u, s, cid, read, send))
ProductSelected(u, s, pid, read, send) == Navigated(send_product_details(u, s, pid, read, send))

\* ------------------------------------------------------------ specification
\* The process after start-up: nothing cached, no flow, the owner table
\* loaded.  u1 is linked to the account uidA, u2 has no users document yet.
InitStore(cats, prods) ==
    /\ users = [u \in Users |-> None]
    /\ user_sessions = [u \in Users |-> NoSession]
    /\ departments = db_owner_departments
    /\ orders = <<>>
    /\ shop_owners = load_shop_owners([s \in Shops |-> None], db_owner_departments, TRUE)
    /\ db_users = [u \in Users |-> IF u = "u1"
                                   THEN Some([firebase_uid |-> Some("uidA"), last_shop_id |-> None, shops |-> {}])
                                   ELSE None]
    /\ categories = cats
    /\ products = prods
    /\ n_at_start = [u \in Users |-> 0]
    /\ last_order = NoOrderRequest

InitWith(cats) == InitStore(cats, <<>>)

\* a category that exists before the process starts
Category0 == [name |-> T_Drinks, description |-> <<>>, icon |-> DefaultIcon, order |-> 0, shopId |-> "s1"]

Init == InitWith(<<Category0>>)

\* Both flow kinds, driven by the owner u1 of s1 (who does not own s2) with
\* one text that every step accepts.
FlowTexts == {T_20}

Next ==
    \/ \E read, write \in BOOLEAN, send \in SendOutcomes : ShopSelected("u1", "s1", read, write, send)
    \/ \E s \in Shops, read \in BOOLEAN, send \in SendOutcomes : AddCategory("u1", s, read, send)
    \/ \E s \in Shops, cid \in {1, MaxCategories + 1}, read, cread \in BOOLEAN, send \in SendOutcomes :
          AddProductCategory("u1", s, cid, read, cread, send)
    \/ \E s \in Shops, read, cread \in BOOLEAN, send \in SendOutcomes : AddProduct("u1", s, read, cread, send)
    \/ \E t \in FlowTexts, read, write \in BOOLEAN, send \in SendOutcomes : TextMessage("u1", t, read, write, send)
    \/ \E s \in Shops, send \in SendOutcomes : SkipCategoryDesc("u1", s, send)
    \/ \E s \in Shops, read, write \in BOOLEAN, send \in SendOutcomes : SkipCategoryIcon("u1", s, read, write, send)
    \/ \E s \in Shops, send \in SendOutcomes : SkipProductDesc("u1", s, send)

Spec == Init /\ [][Next]_vars

\* The category flow alone, driven by the two owners of s1 in an empty shop;
\* the second owner types the skip keyword only.
CategoryTexts(u) == IF u = "u1" THEN {T_Drinks, T_skip} ELSE {T_skip}

NextCategory ==
    \/ \E u \in Users, read \in BOOLEAN, send \in SendOutcomes : AddCategory(u, "s1", read, send)
    \/ \E u \in Users : \E t \in CategoryTexts(u), read, write \in BOOLEAN, send \in SendOutcomes :
          TextMessage(u, t, read, write, send)

SpecCategory == InitWith(<<>>) /\ [][NextCategory]_vars

\* The product flow alone, driven by u1 in a shop that has one category.
ProductTexts == {T_Latte, T_skip, T_4_50, T_0, T_minus1, T_nan}

NextProduct ==
    \/ \E read, cread \in BOOLEAN, send \in SendOutcomes : AddProductCategory("u1", "s1", 1, read, cread, send)
    \/ \E read, cread \in BOOLEAN, send \in SendOutcomes : AddProduct("u1", "s1", read, cread, send)
    \/ \E t \in ProductTexts, write \in BOOLEAN, send \in SendOutcomes : TextMessage("u1", t, TRUE, write, send)
    \/ \E send \in SendOutcomes : SkipProductDesc("u1", "s1", send)

SpecProduct == Init /\ [][NextProduct]_vars

\* Navigation alone: /start and shop selections of both users.
NextNavigation ==
    \/ \E u \in Users, read, write \in BOOLEAN, send \in SendOutcomes : StartCommand(u, read, write, send)
    \/ \E u \in Users, s \in Shops, read, write \in BOOLEAN, send \in SendOutcomes : ShopSelected(u, s, read, write, send)

SpecNavigation == Init /\ [][NextNavigation]_vars

\* Navigation with the store and the transport answering every call.
NextSync ==
    \/ \E u \in Users : StartCommand(u, TRUE, TRUE, [k \in 1..3 |-> TRUE])
    \/ \E u \in Users, s \in Shops : ShopSelected(u, s, TRUE, TRUE, [k \in 1..3 |-> TRUE])

SpecSync == Init /\ [][NextSync]_vars

\* The two owners of s1 side by side, their events interleaved: each sends
\* /start, opens s1, adds a category and types; store and transport answer.
NextUsers ==
    \/ \E u \in Users : StartCommand(u, TRUE, TRUE, [k \in 1..3 |-> TRUE])
    \/ \E u \in Users : ShopSelected(u, "s1", TRUE, TRUE, [k \in 1..3 |-> TRUE])
    \/ \E u \in Users : AddCategory(u, "s1", TRUE, [k \in 1..3 |-> TRUE])
    \/ \E u \in Users : TextMessage(u, T_skip, TRUE, TRUE, [k \in 1..3 |-> TRUE])

SpecUsers == InitWith(<<>>) /\ [][NextUsers]_vars

\* ---------------------------------------------------------------- ownership
\* The departments collection and the account links are written by the web
\* application while the bot runs; the bot only reads them.
Roles == {"owner", "cashier"}
Uids == {"uidA", "uidB"}
\* a telegramChatId that int() rejects
NotANumber == "chat"
ChatIds == Users \cup {NotANumber}
\* a shop id without a shops document
MissingShop == "s0"

\* the store holds an owner-role assignment of shop s to user u
OwnerAssigned(depts, s, u) ==
    \E i \in 1..Len(depts) : depts[i] = [shopId |-> s, role |-> "owner", telegramChatId |-> u]

\* a department document is added; a shop has at most one owner department
AssignRole(s, c, role) ==
    /\ Len(departments) < MaxDepartments
    /\ role = "owner" => ~\E i \in 1..Len(departments) : departments[i].shopId = s /\ departments[i].role = "owner"
    /\ departments' = Append(departments, [shopId |-> s, role |-> role, telegramChatId |-> c])
    /\ UNCHANGED <<users, user_sessions, shop_owners, db_users, categories, products, n_at_start, orders, last_order>>

\* a department document is deleted
RemoveAssignment(i) ==
    /\ i \in 1..Len(departments)
    /\ departments' = SubSeq(departments, 1, i - 1) \o SubSeq(departments, i + 1, Len(departments))
    /\ UNCHANGED <<users, user_sessions, shop_owners, db_users, categories, products, n_at_start, orders, last_order>>

\* the users document of u gets the account id firebase_uid
LinkAccount(u, uid) ==
    /\ db_users[u] # None
    /\ db_users' = [db_users EXCEPT ![u] = Some([db_users[u][1] EXCEPT !.firebase_uid = Some(uid)])]
    /\ UNCHANGED <<users, user_sessions, shop_owners, categories, products, n_at_start, departments, orders, last_order>>

ReloadShopOwners(read) ==
    /\ shop_owners' = reload_shop_owners(shop_owners, departments, read)
    /\ UNCHANGED <<users, user_sessions, db_users, categories, products, n_at_start, departments, orders, last_order>>

\* Ownership alone: users register with /start, the web application edits
\* departments and links accounts, the owner table is reloaded.
NextOwners ==
    \/ \E u \in Users, write \in BOOLEAN : StartCommand(u, TRUE, write, [k \in 1..3 |-> TRUE])
    \/ \E s \in Shops, c \in ChatIds, role \in Roles : AssignRole(s, c, role)
    \/ \E i \in 1..MaxDepartments : RemoveAssignment(i)
    \/ \E u \in Users, uid \in Uids : LinkAccount(u, uid)
    \/ \E read \in BOOLEAN : ReloadShopOwners(read)

SpecOwners == Init /\ [][NextOwners]_vars

\* Ownership changing under a flow: u1 runs both flows for s1 while the web
\* application links the users document of u1 to one account or the other;
\* store and transport answer.
NextRevoke ==
    \/ \E s \in Shops : AddCategory("u1", s, TRUE, [k \in 1..3 |-> TRUE])
    \/ \E s \in Shops : AddProductCategory("u1", s, 1, TRUE, TRUE, [k \in 1..3 |-> TRUE])
    \/ \E t \in FlowTexts : TextMessage("u1", t, TRUE, TRUE, [k \in 1..3 |-> TRUE])
    \/ \E s \in Shops : SkipCategoryIcon("u1", s, TRUE, TRUE, [k \in 1..3 |-> TRUE])
    \/ \E uid \in Uids : LinkAccount("u1", uid)

SpecRevoke == Init /\ [][NextRevoke]_vars

\* ------------------------------------------------------------------ ordering
\* The products of shop s1 as the web application left them: one on sale,
\* one taken off sale, one sold out.
Latte == [name |-> T_Latte, description |-> <<>>, price |-> [nan |-> FALSE, v |-> 450], stock |-> 20,
          category |-> T_Drinks, isActive |-> TRUE, shopId |-> "s1"]
Catalog == <<Latte, [Latte EXCEPT !.isActive = FALSE], [Latte EXCEPT !.stock = 0]>>

\* the product ids of order buttons: the catalog and one id without document
ProductIds == 1..(Len(Catalog) + 1)

\* a chat id of a cashier department
CashierChats == {NotANumber}

\* Ordering: both users order from s1, u1 looks at shop menus in between, the
\* web application adds and deletes the cashier department of s1.
NextOrders ==
    \/ \E u \in Users, pid \in ProductIds, read, chat, write, nread, nsend \in BOOLEAN, send \in SendOutcomes :
          OrderRequest(u, "s1", pid, read, chat, write, send, nread, nsend)
    \/ \E s \in Shops, read, write \in BOOLEAN, send \in SendOutcomes : ShopSelected("u1", s, read, write, send)
    \/ \E c \in CashierChats : AssignRole("s1", c, "cashier")
    \/ \E i \in 1..MaxDepartments : RemoveAssignment(i)

SpecOrders == InitStore(<<Category0>>, Catalog) /\ [][NextOrders]_vars

\* ------------------------------------------------------------------ catalog
\* The categories as the web application left them: three of shop s1 and one
\* of shop s2, in stream order.
Shelves == <<Category0,
             [Category0 EXCEPT !.shopId = "s2"],
             [Category0 EXCEPT !.name = T_Latte, !.order = 1],
             [Category0 EXCEPT !.name = T_skip, !.order = 1]>>

\* what the web application writes
CategoryNames == {T_Drinks, T_Latte}
Orders == 0..1
Stocks == {0, 20}

RenameCategory(cid, name) ==
    /\ categories[cid].name # name
    /\ categories' = [categories EXCEPT ![cid].name = name]
    /\ UNCHANGED <<users, user_sessions, shop_owners, db_users, products, n_at_start, departments, orders, last_order>>

ReorderCategory(cid, o) ==
    /\ categories[cid].order # o
    /\ categories' = [categories EXCEPT ![cid].order = o]
    /\ UNCHANGED <<users, user_sessions, shop_owners, db_users, products, n_at_start, departments, orders, last_order>>

SetActive(pid, b) ==
    /\ products[pid].isActive # b
    /\ products' = [products EXCEPT ![pid].isActive = b]
    /\ UNCHANGED <<users, user_sessions, shop_owners, db_users, categories, n_at_start, departments, orders, last_order>>

SetStock(pid, n) ==
    /\ products[pid].stock # n
    /\ products' = [products EXCEPT ![pid].stock = n]
    /\ UNCHANGED <<users, user_sessions, shop_owners, db_users, categories, n_at_start, departments, orders, last_order>>

\* Browsing: u1 opens category and product screens while the web application
\* renames the first category, reorders the categories and edits the products.
NextCatalog ==
    \/ \E s \in Shops, cid \in 1..(Len(Shelves) + 1), read \in BOOLEAN, send \in SendOutcomes :
          CategorySelected("u1", s, cid, read, send)
    \/ \E s \in Shops, pid \in ProductIds, read \in BOOLEAN, send \in SendOutcomes :
          ProductSelected("u1", s, pid, read, send)
    \/ \E name \in CategoryNames : RenameCategory(1, name)
    \/ \E cid \in 1..Len(Shelves), o \in Orders : ReorderCategory(cid, o)
    \/ \E pid \in 1..Len(Catalog), b \in BOOLEAN : SetActive(pid, b)
    \/ \E pid \in 1..Len(Catalog), n \in Stocks : SetStock(pid, n)

SpecCatalog == InitStore(Shelves, Catalog) /\ [][NextCatalog]_vars

\* ------------------------------------------------------------------ buttons
\* Button payloads are texts; an id never holds the delimiter.
Delimiter == "_"

\* the action names of the payloads the menus carry, as texts
ActionText ==
    [refresh_shops |-> <<"r", "e", "f", "r", "e", "s", "h", "_", "s", "h", "o", "p", "s">>,
     shop |-> <<"s", "h", "o", "p">>,
     category |-> <<"c", "a", "t", "e", "g", "o", "r", "y">>,
     product |-> <<"p", "r", "o", "d", "u", "c", "t">>,
     order |-> <<"o", "r", "d", "e", "r">>,
     add_category |-> <<"a", "d", "d", "_", "c", "a", "t", "e", "g", "o", "r", "y">>,
     add_product_category |-> <<"a", "d", "d", "_", "p", "r", "o", "d", "u", "c", "t", "_", "c", "a", "t", "e", "g", "o", "r", "y">>,
     add_product |-> <<"a", "d", "d", "_", "p", "r", "o", "d", "u", "c", "t">>,
     shop_stats |-> <<"s", "h", "o", "p", "_", "s", "t", "a", "t", "s">>,
     shop_settings |-> <<"s", "h", "o", "p", "_", "s", "e", "t", "t", "i", "n", "g", "s">>,
     manage_staff |-> <<"m", "a", "n", "a", "g", "e", "_", "s", "t", "a", "f", "f">>,
     view_analytics |-> <<"v", "i", "e", "w", "_", "a", "n", "a", "l", "y", "t", "i", "c", "s">>,
     send_announcement |-> <<"s", "e", "n", "d", "_", "a", "n", "n", "o", "u", "n", "c", "e", "m", "e", "n", "t">>,
     skip_category_desc |-> <<"s", "k", "i", "p", "_", "c", "a", "t", "e", "g", "o", "r", "y", "_", "d", "e", "s", "c">>,
     skip_category_icon |-> <<"s", "k", "i", "p", "_", "c", "a", "t", "e", "g", "o", "r", "y", "_", "i", "c", "o", "n">>,
     skip_product_desc |-> <<"s", "k", "i", "p", "_", "p", "r", "o", "d", "u", "c", "t", "_", "d", "e", "s", "c">>]

\* the ids of the documents as texts
ShopText == [s1 |-> <<"s", "1">>, s2 |-> <<"s", "2">>]
IdDigits == <<"1", "2", "3", "4">>
CategoryText(i) == <<"c", IdDigits[i]>>
ProductText(i) == <<"p", IdDigits[i]>>

\* the documents the ids name; an id that names none gives the missing one
ShopOfText(t) == IF \E s \in Shops : ShopText[s] = t THEN CHOOSE s \in Shops : ShopText[s] = t ELSE MissingShop
CategoryOfText(t) ==
    IF \E i \in 1..MaxCategories : CategoryText(i) = t THEN CHOOSE i \in 1..MaxCategories : CategoryText(i) = t
    ELSE MaxCategories + 1
ProductOfText(t) ==
    IF \E i \in ProductIds : ProductText(i) = t THEN CHOOSE i \in ProductIds : ProductText(i) = t
    ELSE Len(Catalog) + 1

\* f"{action}_{id}_{id}...": the payload put on a button
RECURSIVE Encode(_, _)
Encode(action, ids) ==
    IF ids = <<>> THEN ActionText[action]
    ELSE Encode(action, SubSeq(ids, 1, Len(ids) - 1)) \o <<Delimiter>> \o ids[Len(ids)]

\* data.startswith(action + "_")
StartsWith(data, action) ==
    LET prefix == ActionText[action] \o <<Delimiter>>
    IN  Len(data) >= Len(prefix) /\ SubSeq(data, 1, Len(prefix)) = prefix

\* the place of the first delimiter of t, 0 when it has none
FirstDelimiter(t) ==
    IF \E i \in 1..Len(t) : t[i] = Delimiter
    THEN CHOOSE i \in 1..Len(t) : t[i] = Delimiter /\ \A j \in 1..(i - 1) : t[j] # Delimiter
    ELSE 0

\* t.split("_", maxsplit)
RECURSIVE Split(_, _)
Split(t, maxsplit) ==
    LET i == FirstDelimiter(t)
    IN  IF maxsplit = 0 \/ i = 0 THEN <<t>>
        ELSE <<SubSeq(t, 1, i - 1)>> \o Split(SubSeq(t, i + 1, Len(t)), maxsplit - 1)

\* t.split("_")
SplitAll(t) == Split(t, Len(t))

Decoded(action, ids) == [action |-> action, ids |-> ids]
\* no branch handles the payload, or the branch does nothing
Ignored == Decoded("ignored", <<>>)
\* the branch raises IndexError
DecodeRaised == Decoded("raised", <<>>)

\* the branch of button_callback that takes the payload, with the ids it reads
Decode(data) ==
    IF data = ActionText.refresh_shops THEN Decoded("refresh_shops", <<>>)
    ELSE IF StartsWith(data, "shop") THEN Decoded("shop", <<Split(data, 1)[2]>>)
    ELSE IF StartsWith(data, "category")
         THEN IF Len(SplitAll(data)) >= 3 THEN Decoded("category", <<SplitAll(data)[2], SplitAll(data)[3]>>) ELSE Ignored
    ELSE IF StartsWith(data, "product")
         THEN IF Len(SplitAll(data)) >= 3 THEN Decoded("product", <<SplitAll(data)[2], SplitAll(data)[3]>>) ELSE Ignored
    ELSE IF StartsWith(data, "order")
         THEN IF Len(SplitAll(data)) >= 3 THEN Decoded("order", <<SplitAll(data)[2], SplitAll(data)[3]>>) ELSE Ignored
    ELSE IF StartsWith(data, "add_category") THEN Decoded("add_category", <<Split(data, 2)[3]>>)
    ELSE IF StartsWith(data, "add_product_category")
         THEN IF Len(SplitAll(data)) < 4 THEN Ignored
              ELSE IF Len(SplitAll(data)) < 5 THEN DecodeRaised
              ELSE Decoded("add_product_category", <<SplitAll(data)[4], SplitAll(data)[5]>>)
    ELSE IF StartsWith(data, "add_product") THEN Decoded("add_product", <<Split(data, 2)[3]>>)
    ELSE IF StartsWith(data, "shop_stats") THEN Decoded("shop_stats", <<Split(data, 2)[3]>>)
    ELSE IF StartsWith(data, "shop_settings") THEN Decoded("shop_settings", <<Split(data, 2)[3]>>)
    ELSE IF StartsWith(data, "manage_staff") THEN Decoded("manage_staff", <<Split(data, 2)[3]>>)
    ELSE IF StartsWith(data, "view_analytics") THEN Decoded("view_analytics", <<Split(data, 2)[3]>>)
    ELSE IF StartsWith(data, "send_announcement") THEN Decoded("send_announcement", <<Split(data, 2)[3]>>)
    ELSE IF StartsWith(data, "skip_category_desc") THEN Decoded("skip_category_desc", <<Split(data, 3)[4]>>)
    ELSE IF StartsWith(data, "skip_category_icon") THEN Decoded("skip_category_icon", <<Split(data, 3)[4]>>)
    ELSE IF StartsWith(data, "skip_product_desc") THEN Decoded("skip_product_desc", <<Split(data, 3)[4]>>)
    ELSE Ignored

\* the owner buttons of the shop menu
OwnerButtons ==
    {"add_category", "add_product", "shop_stats", "shop_settings", "manage_staff", "view_analytics",
     "send_announcement"}

\* the buttons the menus and prompts carry: the action with its ids
MenuButtons ==
    {Decoded("refresh_shops", <<>>)}
    \cup {Decoded(a, <<ShopText[s]>>) :
             a \in OwnerButtons \cup {"shop", "skip_category_desc", "skip_category_icon", "skip_product_desc"},
             s \in Shops}
    \cup {Decoded(a, <<ShopText[s], CategoryText(i)>>) :
             a \in {"category", "add_product_category"}, s \in Shops, i \in 1..MaxCategories}
    \cup {Decoded(a, <<ShopText[s], ProductText(i)>>) : a \in {"product", "order"}, s \in Shops, i \in 1..Len(Catalog)}

\* the branches of button_callback that only read the store and answer
Screens ==
    {"refresh_shops", "category", "product", "shop_stats", "shop_settings", "manage_staff", "view_analytics",
     "send_announcement", "ignored", "raised"}

\* the payloads of these buttons, and what button_callback decodes each to
MenuPayloads == {Encode(b.action, b.ids) : b \in MenuButtons}
Decoding == [data \in MenuPayloads |-> Decode(data)]

\* button_callback: the press of a button with payload data
ButtonPressed(u, data, read, write, send) ==
    LET d == Decoding[data]
    IN  \/ d.action = "shop" /\ ShopSelected(u, ShopOfText(d.ids[1]), read, write, send)
        \/ d.action = "add_category" /\ AddCategory(u, ShopOfText(d.ids[1]), read, send)
        \/ d.action = "add_product" /\ AddProduct(u, ShopOfText(d.ids[1]), read, read, send)
        \/ /\ d.action = "add_product_category"
           /\ AddProductCategory(u, ShopOfText(d.ids[1]), CategoryOfText(d.ids[2]), read, read, send)
        \/ /\ d.action = "order"
           /\ OrderRequest(u, ShopOfText(d.ids[1]), ProductOfText(d.ids[2]), read, read, write, send, read, send[1])
        \/ d.action = "skip_category_desc" /\ SkipCategoryDesc(u, ShopOfText(d.ids[1]), send)
        \/ d.action = "skip_category_icon" /\ SkipCategoryIcon(u, ShopOfText(d.ids[1]), read, write, send)
        \/ d.action = "skip_product_desc" /\ SkipProductDesc(u, ShopOfText(d.ids[1]), send)
        \/ d.action \in Screens /\ UNCHANGED vars

\* Buttons alone: the owner u1 of s1 presses the buttons of the menus.
NextButtons ==
    \E data \in MenuPayloads, read, write \in BOOLEAN, send \in SendOutcomes :
       ButtonPressed("u1", data, read, write, send)

SpecButtons == InitStore(<<Category0>>, Catalog) /\ [][NextButtons]_vars

\* --------------------------------------------------------------- properties
\* the flows a user has in the session store
CategoryFlow(u) == user_sessions[u].adding_category
ProductFlow(u) == user_sessions[u].adding_product

\* the event is answered with the generic error message
ErrorReplied(r) == \E i \in 1..Len(r.replies) : r.replies[i] = "error"

\* C1, as stated: when a user who has a flow presses the Cancel button of its
\* prompt - the button shop_<s> of the flow's shop - the user has no flow once
\* the event is handled, so the next text is not taken as flow input.
C1_CancelClearsFlow ==
    [][\A u \in Users, s \in Shops, read, write \in BOOLEAN, send \in SendOutcomes :
          (/\ ShopSelected(u, s, read, write, send)
           /\ \/ CategoryFlow(u) # None /\ CategoryFlow(u)[1].shop_id = s
              \/ ProductFlow(u) # None /\ ProductFlow(u)[1].shop_id = s)
          => CategoryFlow(u)' = None /\ ProductFlow(u)' = None]_vars

\* the category a flow at step icon commits when its icon is skipped
SkippedCategory(flow, order) ==
    [name |-> flow.name[1], description |-> <<>>, icon |-> DefaultIcon, order |-> order, shopId |-> flow.shop_id]

\* what the texts n and skip do to a category flow that is left `after` them
CategoryFed(flow, text, after) ==
    /\ (flow.step = "name" /\ after # None)
          => after = Some([flow EXCEPT !.name = Some(text), !.step = "description"])
    /\ (flow.step = "description" /\ IsSkip(text) /\ after # None)
          => after = Some([flow EXCEPT !.step = "icon"])

\* the third text, skip, reaches a flow that was fed n and skip
CategorySkipCommit(flow, text) ==
    /\ flow.step = "icon"
    /\ IsSkip(text)
    /\ flow.name # None
    /\ flow.description = None

\* a text message of user u handled in the current state, in a category flow
\* whose skipped icon commits with order N[u]
CategoryFlowFed(N) ==
    \A u \in Users : CategoryFlow(u) # None =>
       \A t \in CategoryTexts(u), read, write \in BOOLEAN, send \in SendOutcomes :
          LET flow == CategoryFlow(u)[1]
              text == Strip(t)
              r == handle_text_message(u, t, read, write, send)
          IN  /\ CategoryFed(flow, text, r.sessions[u].adding_category)
              /\ (CategorySkipCommit(flow, text) /\ read /\ write) =>
                    /\ r.categories = Append(categories, SkippedCategory(flow, N[u]))
                    /\ r.sessions[u].adding_category = None

\* the number of categories of the shop of each user's flow: now, and when the
\* flow was started
CountAtCommit ==
    [u \in Users |-> IF CategoryFlow(u) = None THEN 0 ELSE CountFor(categories, CategoryFlow(u)[1].shop_id)]
CountAtStart == n_at_start

\* C2, amended: a category flow for shop S fed n, skip, skip keeps n as its
\* name and no description, and its third text - when the store calls of the
\* commit succeed - commits exactly one category with name n, description "",
\* the default icon, shopId S and order N, N being the number of categories
\* the store holds for S when the flow commits; the flow is then absent.
C2_OrderAtCommit == CategoryFlowFed(CountAtCommit)

\* C2, as stated: the order N of the committed category is the number of
\* categories that existed for S before the flow started.
C2_OrderAtStart == CategoryFlowFed(CountAtStart)

\* a flow fed Drinks, skip, skip has committed with order 1, behind a category
\* of the second owner
C2_Witness ==
    /\ Len(categories) = 2
    /\ categories[2] = [name |-> T_Drinks, description |-> <<>>, icon |-> DefaultIcon, order |-> 1, shopId |-> "s1"]
    /\ categories[1].name = T_skip
    /\ CategoryFlow("u1") = None

\* a price the claims call positive: a number above zero
PositivePrice(t) == ParseFloat(t).ok /\ ~ParseFloat(t).nan /\ ParseFloat(t).v > 0
\* a stock the claims call a non-negative integer
NonNegativeStock(t) == ParseInt(t).ok /\ ParseInt(t).v >= 0

\* A product flow for shop S and category C takes the name of C as it is
\* when the flow starts; fed a name, a description (other than the skip
\* keyword), a positive price and a non-negative integer stock it keeps each
\* value, and its fourth text commits exactly one product with those values,
\* category = the name taken at the start, shopId S, and leaves no flow.
\* failing: the commit is claimed for a failing store write too.
ProductFlowFed(failing) ==
    /\ \A u \in Users, s \in Shops, cid \in 1..MaxCategories, read, cread \in BOOLEAN, send \in SendOutcomes :
          LET r == handle_add_product(u, s, Some(cid), read, cread, send)
          IN  r.sessions # user_sessions =>
                 /\ cid <= Len(categories)
                 /\ r.sessions[u].adding_product =
                       Some([shop_id |-> s, category_id |-> cid, category_name |-> categories[cid].name,
                             step |-> "name", name |-> None, description |-> None, price |-> None, stock |-> None])
    /\ \A u \in Users : (CategoryFlow(u) = None /\ ProductFlow(u) # None) =>
          \A t \in ProductTexts, write \in BOOLEAN, send \in SendOutcomes :
             LET flow == ProductFlow(u)[1]
                 text == Strip(t)
                 r == handle_text_message(u, t, TRUE, write, send)
                 after == r.sessions[u].adding_product
             IN  /\ (flow.step = "name" /\ after # None)
                       => after = Some([flow EXCEPT !.name = Some(text), !.step = "description"])
                 /\ (flow.step = "description" /\ ~IsSkip(text) /\ after # None)
                       => after = Some([flow EXCEPT !.description = Some(text), !.step = "price"])
                 /\ (flow.step = "price" /\ PositivePrice(text) /\ after # None)
                       => after = Some([flow EXCEPT !.price = Some([nan |-> FALSE, v |-> ParseFloat(text).v]),
                                                    !.step = "stock"])
                 /\ (/\ flow.step = "stock" /\ NonNegativeStock(text) /\ (write \/ failing)
                     /\ flow.name # None /\ flow.description # None /\ flow.price # None)
                       => /\ r.products = Append(products, [name |-> flow.name[1],
                                                            description |-> flow.description[1],
                                                            price |-> flow.price[1],
                                                            stock |-> ParseInt(text).v,
                                                            category |-> flow.category_name,
                                                            isActive |-> TRUE,
                                                            shopId |-> flow.shop_id])
                          /\ after = None

\* C3: a product flow for shop S and category C fed [name, description,
\* positive price, non-negative integer stock] commits exactly one product
\* with those values, category = the name of C as passed into the flow,
\* shopId S.  (A failing write of the commit is an external store failure:
\* nothing is committed then.)
C3_ProductCommit == ProductFlowFed(FALSE)

\* The same without regard to the write: it does not hold, a failing write
\* commits nothing.
C3_AlwaysCommits == ProductFlowFed(TRUE)

\* the flow started on category Drinks of s1 and fed Latte, Latte, 4.50, 0 has
\* committed
C3_Witness ==
    /\ products = <<[name |-> T_Latte, description |-> T_Latte, price |-> [nan |-> FALSE, v |-> 450], stock |-> 0,
                     category |-> T_Drinks, isActive |-> TRUE, shopId |-> "s1"]>>
    /\ ProductFlow("u1") = None

\* At step price a text that does not parse as a number, or parses to a value
\* that is not positive, leaves the flow exactly as it was and persists no
\* product.  failing: claimed also for the event that ends in the generic
\* error message.
InvalidPriceKeepsFlow(failing) ==
    \A u \in Users : (CategoryFlow(u) = None /\ ProductFlow(u) # None /\ ProductFlow(u)[1].step = "price") =>
       \A t \in ProductTexts, write \in BOOLEAN, send \in SendOutcomes :
          LET r == handle_text_message(u, t, TRUE, write, send)
          IN  (/\ ~ParseFloat(Strip(t)).ok \/ FloatLeqZero(ParseFloat(Strip(t)))
               /\ ~ErrorReplied(r) \/ failing)
              => r.sessions = user_sessions /\ r.products = products

C4_InvalidPriceAlwaysKeepsFlow == InvalidPriceKeepsFlow(TRUE)

StockStep(failing) ==
    \A u \in Users : (CategoryFlow(u) = None /\ ProductFlow(u) # None /\ ProductFlow(u)[1].step = "stock") =>
       \A t \in ProductTexts, write \in BOOLEAN, send \in SendOutcomes :
          LET flow == ProductFlow(u)[1]
              r == handle_text_message(u, t, TRUE, write, send)
          IN  /\ (~NonNegativeStock(Strip(t)) /\ (~ErrorReplied(r) \/ failing))
                    => r.sessions = user_sessions /\ r.products = products
              /\ (NonNegativeStock(Strip(t)) /\ (write \/ failing) /\ flow.name # None /\ flow.price # None)
                    => /\ Len(r.products) = Len(products) + 1
                       /\ r.products[Len(r.products)].stock = ParseInt(Strip(t)).v
                       /\ r.sessions[u].adding_product = None

\* C5: at step stock a text that does not parse as an integer, or parses to
\* a negative integer, leaves the flow exactly as it was and persists no
\* product; a non-negative integer commits.  (An event that ends in the
\* generic error message, and a failing write of the commit, are external
\* failures: the flow is cleared and nothing is committed then.)
C5_StockStep == StockStep(FALSE)

\* The same without regard to transport and store: it does not hold.
C5_StockStepAlways == StockStep(TRUE)

\* a flow waits at step stock with the price 4.50, where -1, 4.50 and Latte
\* are rejected and 0 commits
C5_Witness ==
    /\ ProductFlow("u1") # None
    /\ ProductFlow("u1")[1].step = "stock"
    /\ ProductFlow("u1")[1].price = Some([nan |-> FALSE, v |-> 450])
    /\ products = <<>>

\* the two ownership checks of the add handlers, the store lookup of the
\* first working (read) or failing
PassesCheck(u, s, read) == is_shop_owner(u, s, read) \/ is_shop_owner_by_telegram_id(u, s)

\* the category ids an add-product button can carry
ButtonCategories == {None} \cup {Some(c) : c \in 1..(MaxCategories + 1)}

\* what the add buttons of user u can leave, with the shop and the check
AddEvents(u) ==
    {[shop |-> s, passed |-> PassesCheck(u, s, read), key |-> "adding_category",
      r |-> handle_add_category(u, s, read, send)] :
        s \in Shops, read \in BOOLEAN, send \in SendOutcomes}
    \cup
    {[shop |-> x[1], passed |-> PassesCheck(u, x[1], x[3]), key |-> "adding_product",
      r |-> handle_add_product(u, x[1], x[2], x[3], x[4], x[5])] :
        x \in Shops \X ButtonCategories \X BOOLEAN \X BOOLEAN \X SendOutcomes}

\* what the texts and the skip buttons of user u can leave
StepEvents(u) ==
    {handle_text_message(u, t, read, write, send) :
        t \in FlowTexts, read \in BOOLEAN, write \in BOOLEAN, send \in SendOutcomes}
    \cup {button_skip_category_icon(u, s, read, write, send) :
        s \in Shops, read \in BOOLEAN, write \in BOOLEAN, send \in SendOutcomes}
    \cup {button_skip_category_desc(u, s, send) : s \in Shops, send \in SendOutcomes}
    \cup {button_skip_product_desc(u, s, send) : s \in Shops, send \in SendOutcomes}

\* the shop of an optional flow
ShopOf(f) == IF f = None THEN None ELSE Some(f[1].shop_id)

\* C6: when a user who fails both ownership checks for shop S presses add
\* category or add product for S, no flow is created and the session store (as
\* the collections; the handlers do not write the profile) is left as it was;
\* and a flow for S comes to exist only by an add button pressed by a user who
\* passes the check at that moment: an add button that changes the session
\* leaves a flow for its shop and was pressed by such a user, and no text or
\* skip button gives a user a flow for a shop they had none for.
C6_OnlyOwnersStartFlows ==
    \A u \in Users :
       /\ \A e \in AddEvents(u) :
             /\ ~e.passed => (e.r.sessions = user_sessions /\ e.r.categories = categories /\ e.r.products = products)
             /\ e.r.sessions # user_sessions =>
                   /\ e.passed
                   /\ ShopOf(e.r.sessions[u][e.key]) = Some(e.shop)
                   /\ \A v \in Users, k \in {"adding_category", "adding_product"} :
                         (v # u \/ k # e.key) => e.r.sessions[v][k] = user_sessions[v][k]
       /\ \A r \in StepEvents(u) : \A v \in Users, k \in {"adding_category", "adding_product"} :
             r.sessions[v][k] # None => ShopOf(r.sessions[v][k]) = ShopOf(user_sessions[v][k])

\* the owner of s1, who passes no check for s2, has a flow of each kind for s1
C6_Witness ==
    /\ ShopOf(CategoryFlow("u1")) = Some("s1")
    /\ ShopOf(ProductFlow("u1")) = Some("s1")
    /\ \A read \in BOOLEAN : ~PassesCheck("u1", "s2", read)

\* the events of user u that run a commit: the text at step icon, the text at
\* step stock that is a non-negative integer, the default-icon button
CommitEvents(u) ==
    {[key |-> IF CategoryFlow(u) # None THEN "adding_category" ELSE "adding_product",
      r |-> handle_text_message(u, x[1], x[2], x[3], x[4])] :
        x \in {y \in FlowTexts \X BOOLEAN \X BOOLEAN \X SendOutcomes :
                  \/ CategoryFlow(u) # None /\ CategoryFlow(u)[1].step = "icon"
                  \/ /\ CategoryFlow(u) = None /\ ProductFlow(u) # None
                     /\ ProductFlow(u)[1].step = "stock" /\ NonNegativeStock(Strip(y[1]))}}
    \cup
    {[key |-> "adding_category", r |-> button_skip_category_icon(u, x[1], x[2], x[3], x[4])] :
        x \in {y \in Shops \X BOOLEAN \X BOOLEAN \X SendOutcomes : CategoryFlow(u) # None}}

\* C7, as stated: an error during a commit - the store call fails or a reply
\* cannot be sent, so that the event ends in the generic error message or in
\* an exception - leaves the user's flow of that kind absent.
C7_ErrorClearsFlow ==
    \A u \in Users : \A e \in CommitEvents(u) :
       (ErrorReplied(e.r) \/ e.r.raised) => e.r.sessions[u][e.key] = None

\* C8, as stated: a commit that ends by reporting the generic failure message
\* persisted nothing.
C8_ErrorPersistsNothing ==
    \A u \in Users : \A e \in CommitEvents(u) :
       ErrorReplied(e.r) => (e.r.categories = categories /\ e.r.products = products)

\* C9: an event writes at most one entity, and the flow that wrote it is
\* absent when the event is handled: a step that leaves a collection changed
\* has appended one document of the shop of the user's flow of that kind and
\* left that flow absent (so a final text or skip button delivered again finds
\* no flow and writes nothing); the add buttons write nothing.
C9_WrittenFlowAbsent ==
    \A u \in Users :
       /\ \A r \in StepEvents(u) :
             /\ r.categories # categories =>
                   /\ CategoryFlow(u) # None
                   /\ \E doc \in {r.categories[Len(r.categories)]} :
                         r.categories = Append(categories, doc) /\ doc.shopId = CategoryFlow(u)[1].shop_id
                   /\ r.sessions[u].adding_category = None
                   /\ r.products = products
             /\ r.products # products =>
                   /\ ProductFlow(u) # None
                   /\ \E doc \in {r.products[Len(r.products)]} :
                         r.products = Append(products, doc) /\ doc.shopId = ProductFlow(u)[1].shop_id
                   /\ r.sessions[u].adding_product = None
                   /\ r.categories = categories
             /\ (CategoryFlow(u) = None /\ ProductFlow(u) = None) =>
                   (r.categories = categories /\ r.products = products)
       /\ \A e \in AddEvents(u) : e.r.categories = categories /\ e.r.products = products

\* a category and a product have been written and the flows that wrote them
\* are absent
C9_Witness ==
    /\ Len(categories) = 2
    /\ Len(products) = 1
    /\ CategoryFlow("u1") = None
    /\ ProductFlow("u1") = None

\* C10, as stated: add_user for a user who has a cached profile, with the
\* data of /start (no last_shop_id, no shops), leaves both fields as they
\* were, and no /start makes the shops of the profile lose an entry.
C10_StartKeepsShops ==
    \A u \in Users : users[u] # None =>
       /\ add_user(users, u, StartUserData(u))[u][1].last_shop_id = users[u][1].last_shop_id
       /\ add_user(users, u, StartUserData(u))[u][1].shops = users[u][1].shops
       /\ \A read, write \in BOOLEAN, send \in SendOutcomes :
             users[u][1].shops \subseteq start_command(u, read, write, send).users[u][1].shops

\* C11, as stated: for every user U, cached or not, and every shop S,
\* update_shop_interaction(U, S) leaves a cached profile of U with
\* last_shop_id = S and an entry for S among its shops, the entries of the
\* other shops being as they were.
C11_VisitRecordedForEveryUser ==
    \A u \in Users, s \in Shops :
       LET after == update_shop_interaction(users, u, s)
       IN  /\ after[u] # None
           /\ after[u][1].last_shop_id = Some(s)
           /\ s \in after[u][1].shops
           /\ users[u] # None => after[u][1].shops \ {s} = users[u][1].shops \ {s}

\* C12: update_shop_interaction(U, S) applied twice in a row leaves the cache
\* as one application leaves it (the timestamp apart, which the cache entry
\* here does not carry): same last_shop_id, same shop keys, and no
\* application touches the profile of another user.
C12_VisitIdempotent ==
    \A u \in Users, s \in Shops :
       LET once == update_shop_interaction(users, u, s)
           twice == update_shop_interaction(once, u, s)
       IN  /\ twice = once
           /\ \A v \in Users \ {u} : once[v] = users[v]
           /\ users[u] # None => (once[u][1].last_shop_id = Some(s) /\ once[u][1].shops = users[u][1].shops \cup {s})

\* a profile that visited s2 and then s1, on which a repeated visit of either
\* shop is applied
C12_Witness ==
    /\ users["u1"] # None
    /\ users["u1"][1].last_shop_id = Some("s1")
    /\ users["u1"][1].shops = {"s1", "s2"}

\* the flow kinds of the session store
FlowKinds == {"adding_category", "adding_product"}

\* C13: the session store is scoped by flow kind: clear_user_session(U, k)
\* removes flow k of U and leaves the other kind of U and the flows of the
\* other users as they were; clear_user_session(U) without a kind removes
\* every flow of U and nothing of another user; get_user_session answers the
\* default (None) for an absent flow and the value last set otherwise.
C13_SessionScopedByKind ==
    \A u \in Users :
       /\ \A k \in FlowKinds :
             LET cleared == clear_user_session(user_sessions, u, Some(k))
             IN  /\ get_user_session(cleared, u, k) = None
                 /\ \A v \in Users, j \in FlowKinds :
                       (v # u \/ j # k) => get_user_session(cleared, v, j) = get_user_session(user_sessions, v, j)
                 /\ \A s \in Shops :
                       LET set == set_user_session(user_sessions, u, k, NewCategoryFlow(s))
                       IN  /\ get_user_session(set, u, k) = Some(NewCategoryFlow(s))
                           /\ get_user_session(clear_user_session(set, u, Some(k)), u, k) = None
                           /\ \A v \in Users, j \in FlowKinds :
                                 (v # u \/ j # k) => get_user_session(set, v, j) = get_user_session(user_sessions, v, j)
       /\ LET wiped == clear_user_session(user_sessions, u, None)
          IN  \A v \in Users, j \in FlowKinds :
                 get_user_session(wiped, v, j) = IF v = u THEN None ELSE get_user_session(user_sessions, v, j)

\* the commit of a category has cleared the category flow of u1 and left the
\* product flow of u1
C13_Witness ==
    /\ Len(categories) = 2
    /\ CategoryFlow("u1") = None
    /\ ProductFlow("u1") # None

\* (a) of C14: the stored profile of u exists and carries a linked account
\* that is the owner reference of shop s
ProfileOwns(u, s) ==
    \E uid \in Uids :
       /\ db_users[u] # None
       /\ db_users[u][1].firebase_uid = Some(uid)
       /\ s \in DOMAIN db_shops
       /\ db_shops[s].ownerId = uid

\* (b) of C14: the owner table maps s to u
TableOwns(u, s) == \E t \in DOMAIN shop_owners : t = s /\ shop_owners[t] = Some(u)

\* C14: a user U is treated as owner of shop S exactly when (a) the stored
\* profile of U exists and its linked account equals the owner reference of
\* S, or (b) the owner table maps S to U.  A missing profile, a missing link,
\* a missing shop or a failing lookup make (a) false: the check answers, it
\* raises nothing, and the add-category button starts a flow exactly for the
\* users treated as owners.
C14_OwnerExactly ==
    \A u \in Users, s \in Shops \cup {MissingShop} :
       /\ OwnerCheck(u, s, TRUE) = (ProfileOwns(u, s) \/ TableOwns(u, s))
       /\ OwnerCheck(u, s, FALSE) = TableOwns(u, s)
       /\ is_shop_owner(u, s, TRUE) = ProfileOwns(u, s)
       /\ is_shop_owner(u, s, FALSE) = FALSE
       /\ \A read \in BOOLEAN, send \in SendOutcomes :
             LET r == handle_add_category(u, s, read, send)
             IN  /\ ~r.raised => r.replies # <<>>
                 /\ r.sessions[u].adding_category = Some(NewCategoryFlow(s))
                       <=> \/ read /\ ProfileOwns(u, s)
                           \/ TableOwns(u, s)
                           \/ user_sessions[u].adding_category = Some(NewCategoryFlow(s))

\* u1 owns s2 by its linked account, u2 has a profile without a link and owns
\* s1 by the table, and the table maps s2 to nobody
C14_Witness ==
    /\ db_users["u1"] # None /\ db_users["u1"][1].firebase_uid = Some("uidB")
    /\ db_users["u2"] # None /\ db_users["u2"][1].firebase_uid = None
    /\ shop_owners["s1"] = Some("u2")
    /\ shop_owners["s2"] = None

\* C15, as stated: a refresh replaces the owner table wholesale: after
\* reload_shop_owners, with a store that answers, the table maps a shop to a
\* user exactly when the store holds an owner-role assignment of that shop to
\* that user, so that a removed assignment grants nothing any more.
C15_ReloadReplacesTable ==
    LET table == reload_shop_owners(shop_owners, departments, TRUE)
    IN  \A s \in Shops, u \in Users : table[s] = Some(u) <=> OwnerAssigned(departments, s, u)

\* what the calls of one order request do: the product lookup, get_chat, the
\* write of the order, the replies, the departments query, the notification
OrderCalls ==
    [read : BOOLEAN, chat : BOOLEAN, write : BOOLEAN, send : SendOutcomes, nread : BOOLEAN, nsend : BOOLEAN]

\* the order request of u for product pid of shop s on the orders ords
Ordered(ords, u, s, pid, c) ==
    handle_order_request(ords, products, departments, u, s, pid, c.read, c.chat, c.write, c.send, c.nread, c.nsend)

\* the product is off sale or sold out
OffSaleOrSoldOut(p) == p.isActive = FALSE \/ p.stock = 0

\* the order request is for a product that is missing, off sale or sold out
NotOrderable(pid) == pid \notin DOMAIN products \/ OffSaleOrSoldOut(products[pid])

\* the customer is answered with the generic error message alone, or with
\* nothing when no message can be delivered
ErrorOrNothing(r) == r.replies = <<"error">> \/ (r.replies = <<>> /\ r.raised)

\* C16: an order request for a product that is inactive or has stock 0
\* creates no order document and notifies nobody, and neither does one for a
\* missing product, whatever the store and the transport do; the request is
\* answered with the unavailable reply, which is not the not-found reply of
\* the missing product.  (The reply is the first message of the handler: it
\* is given when the product lookup answers and the message is delivered; a
\* failing lookup is an external store failure and is answered with the
\* generic error message.)
C16_OrderRejected ==
    \A u \in Users, s \in Shops, pid \in ProductIds, c \in OrderCalls :
       LET r == Ordered(orders, u, s, pid, c)
       IN  NotOrderable(pid)
           => /\ r.orders = orders
              /\ r.products = products
              /\ r.notified = None
              /\ \A i \in 1..Len(r.replies) : r.replies[i] # "confirmed"
              /\ c.read /\ c.send[1]
                    => r.replies = <<IF pid \in DOMAIN products THEN "unavailable" ELSE "product_not_found">>
              /\ ~c.read => ErrorOrNothing(r)

\* the last order request was for the sold-out product, got the unavailable
\* reply and no order exists
C16_Witness ==
    /\ last_order.product = 3
    /\ last_order.replies = <<"unavailable">>
    /\ orders = <<>>

\* the order document the claim describes: one line item of quantity 1, unit
\* price, line total and order total equal to the price of the product
SingleItemOrder(o, u, s, pid) ==
    /\ o.shopId = s /\ o.telegramId = u /\ o.status = "pending"
    /\ Len(o.items) = 1
    /\ o.items[1].productId = pid
    /\ o.items[1].productName = products[pid].name
    /\ o.items[1].quantity = 1
    /\ o.items[1].price = products[pid].price
    /\ o.items[1].total = products[pid].price
    /\ o.total = products[pid].price

\* C17: an order request for an existing active product with stock > 0
\* creates exactly one order document, with a single line item of quantity 1
\* whose unit price and line total are the product's price and an order total
\* equal to that price, in every reachable state, that is whatever shop
\* menus were viewed and whatever orders were placed before.  (An external
\* failure, of the product lookup, of the lookup of the customer's chat or of
\* the write, leaves the orders as they were and is answered with the
\* generic error message.)
C17_OrderCreated ==
    \A u \in Users, s \in Shops, pid \in DOMAIN products, c \in OrderCalls :
       LET r == Ordered(orders, u, s, pid, c)
       IN  ~OffSaleOrSoldOut(products[pid])
           => IF c.read /\ c.chat /\ c.write
              THEN /\ Len(r.orders) = Len(orders) + 1
                   /\ SubSeq(r.orders, 1, Len(orders)) = orders
                   /\ SingleItemOrder(r.orders[Len(r.orders)], u, s, pid)
              ELSE r.orders = orders /\ ErrorOrNothing(r)

\* u1 has viewed the menus of both shops, and the last order request, for the
\* product on sale, was confirmed and left an order
C17_Witness ==
    /\ db_users["u1"][1].shops = {"s1", "s2"}
    /\ last_order.product = 1
    /\ last_order.replies = <<"confirmed">>
    /\ orders # <<>>

\* the calls of an order request with the transport working
StoreCalls == {c \in OrderCalls : c.send[1] /\ c.nread /\ c.nsend}

\* C18: placing orders never changes a product: after any number of order
\* requests by any users, handled in any order, stock and active flag of
\* every product are what they were; and of two order requests of two
\* different users for the same in-stock product neither stands in the way
\* of the other: the second adds an order exactly when it would have added
\* one alone, so that both create an order when the store answers both.
C18_OrdersKeepProducts ==
    /\ products = Catalog
    /\ \A u \in Users, s \in Shops, pid \in ProductIds, c \in OrderCalls :
          Ordered(orders, u, s, pid, c).products = products
    /\ \A u \in Users, v \in Users, s \in Shops, pid \in DOMAIN products, c1 \in StoreCalls, c2 \in StoreCalls :
          LET r1 == Ordered(orders, u, s, pid, c1)
              r2 == handle_order_request(r1.orders, r1.products, departments, v, s, pid,
                                         c2.read, c2.chat, c2.write, c2.send, c2.nread, c2.nsend)
              alone == Ordered(orders, v, s, pid, c2)
          IN  (u # v /\ ~OffSaleOrSoldOut(products[pid]))
              => /\ r2.products = products
                 /\ Len(r2.orders) - Len(r1.orders) = Len(alone.orders) - Len(orders)
                 /\ r2.replies = alone.replies
                 /\ (c1.read /\ c1.chat /\ c1.write /\ c2.read /\ c2.chat /\ c2.write)
                       => /\ Len(r2.orders) = Len(orders) + 2
                          /\ SingleItemOrder(r2.orders[Len(orders) + 1], u, s, pid)
                          /\ SingleItemOrder(r2.orders[Len(orders) + 2], v, s, pid)

\* both users have ordered the product on sale and the catalog is as it was
C18_Witness ==
    /\ Len(orders) = 2
    /\ orders[1].telegramId # orders[2].telegramId
    /\ orders[1].items[1].productId = orders[2].items[1].productId
    /\ products = Catalog

\* C19: when the notification of an order finds no cashier-role assignment
\* for the shop, or its send fails, the order already persisted stays
\* persisted and the customer, who has got the confirmation by then, gets no
\* error message; what the notification does changes neither the orders nor
\* the replies of any order request.
C19_NotificationNotFatal ==
    \A u \in Users, s \in Shops, pid \in ProductIds, c \in OrderCalls :
       LET r == Ordered(orders, u, s, pid, c)
           notified == Ordered(orders, u, s, pid, [c EXCEPT !.nread = TRUE, !.nsend = TRUE])
       IN  /\ r.orders = notified.orders
           /\ r.replies = notified.replies
           /\ r.raised = notified.raised
           /\ (/\ Len(r.orders) = Len(orders) + 1
               /\ c.send[1]
               /\ CashierChat(departments, s, 1) = None \/ ~c.nread \/ ~c.nsend)
              => /\ SingleItemOrder(r.orders[Len(r.orders)], u, s, pid)
                 /\ r.notified = None
                 /\ r.replies = <<"confirmed">>
                 /\ ~r.raised

\* the last order request was confirmed, nobody was notified, the order is
\* there and s1 has no cashier department
C19_Witness ==
    /\ last_order.product = 1
    /\ last_order.replies = <<"confirmed">>
    /\ last_order.notified = None
    /\ orders # <<>>
    /\ CashierChat(departments, "s1", 1) = None

\* the buttons the menus carry for the documents the store holds
ShownButtons ==
    {b \in MenuButtons :
        /\ b.action \in {"category", "add_product_category"} => CategoryOfText(b.ids[2]) \in DOMAIN categories
        /\ b.action \in {"product", "order"} => ProductOfText(b.ids[2]) \in DOMAIN products}

\* C20, as stated: encoding and decoding of button payloads agree: every
\* payload a menu puts on a button, an action with a shop id and up to two
\* further ids without delimiter, is decoded by button_callback to the same
\* action with the same ids, the seven owner buttons of the shop menu
\* included.
C20_DecodeInvertsEncode ==
    \A b \in ShownButtons : Decode(Encode(b.action, b.ids)) = b

\* the transport delivers every message
Delivered == [k \in 1..3 |-> TRUE]

\* the visit of shop s by u is in the cache and in the store
VisitRecorded(us, db, u, s) ==
    /\ us[u] # None /\ us[u][1].last_shop_id = Some(s) /\ s \in us[u][1].shops
    /\ db[u] # None /\ db[u][1].last_shop_id = Some(s) /\ s \in db[u][1].shops

\* C21, as stated: a shop visit is recorded in the cache and persisted to the
\* store when, and only when, a shop menu is shown for a shop selection: the
\* selection that shows the menu (store and transport answering) leaves the
\* visit in the cached and in the stored profile of the user, and the screens
\* of a category and of a product change no cached and no stored profile.
C21_VisitRecordedWithShopMenu ==
    \A u \in Users, s \in Shops :
       /\ LET r == button_shop(u, s, TRUE, TRUE, Delivered)
          IN  r.replies = <<"shop_menu">> => VisitRecorded(r.users, r.db_users, u, s)
       /\ \A read \in BOOLEAN, send \in SendOutcomes :
             /\ \A cid \in 1..(MaxCategories + 1) :
                   LET r == send_category_products(u, s, cid, read, send)
                   IN  r.users = users /\ r.db_users = db_users
             /\ \A pid \in 1..(MaxProducts + 1) :
                   LET r == send_product_details(u, s, pid, read, send)
                   IN  r.users = users /\ r.db_users = db_users

\* the elements of a sequence
Range(seq) == {seq[k] : k \in DOMAIN seq}

\* C22: get_shop_categories(S) returns exactly the stored categories whose
\* shopId is S, each once, in ascending order of their order field, and
\* categories of equal order in the order the store streams them.  (When the
\* read fails the list is empty: the failure policy, not this sentence.)
C22_CategoriesOfShopSorted ==
    \A s \in Shops :
       LET r == get_shop_categories(categories, s, TRUE)
       IN  /\ Range(r) = {cid \in DOMAIN categories : categories[cid].shopId = s}
           /\ Len(r) = Cardinality(Range(r))
           /\ \A j, k \in DOMAIN r :
                 j < k => \/ categories[r[j]].order < categories[r[k]].order
                          \/ categories[r[j]].order = categories[r[k]].order /\ r[j] < r[k]
           /\ get_shop_categories(categories, s, FALSE) = <<>>

\* three categories of s1, the first streamed ordered after the two others,
\* which are of equal order: the sort moves the first behind them
C22_Witness ==
    /\ categories[1].shopId = "s1" /\ categories[3].shopId = "s1" /\ categories[4].shopId = "s1"
    /\ categories[1].order > categories[3].order
    /\ categories[3].order = categories[4].order
    /\ get_shop_categories(categories, "s1", TRUE) = <<3, 4, 1>>

\* C23: the products offered on the screen of category C of shop S are
\* exactly the stored products whose shopId is S, whose category string is
\* the current name of C, which are active and in stock; a product whose
\* category string differs from that name is on no screen of C, whatever the
\* store and the transport do.
C23_ProductsOfCategoryOffered ==
    \A s \in Shops, cid \in DOMAIN categories :
       /\ LET r == send_category_products("u1", s, cid, TRUE, Delivered)
          IN  /\ Range(r.offered) =
                    {pid \in DOMAIN products :
                        /\ products[pid].shopId = s
                        /\ products[pid].category = categories[cid].name
                        /\ products[pid].isActive
                        /\ products[pid].stock > 0}
              /\ \A j, k \in DOMAIN r.offered : j < k => r.offered[j] < r.offered[k]
       /\ \A read \in BOOLEAN, send \in SendOutcomes :
             \A pid \in Range(send_category_products("u1", s, cid, read, send).offered) :
                products[pid].category = categories[cid].name

\* the first category was renamed: its screen no longer offers the product on
\* sale that still carries the old name, and offered it before the renaming
C23_Witness ==
    /\ categories[1].name = T_Latte
    /\ ~Unavailable(products[1]) /\ products[1].category = T_Drinks
    /\ send_category_products("u1", "s1", 1, TRUE, Delivered).offered = <<>>
    /\ ProductsOffered(products, "s1", T_Drinks, 1) = <<1>>

\* C24, as stated: no store or transport error propagates out of a top-level
\* handler (start_command, button_callback, handle_text_message), the error
\* raised while the error reply is being sent included: whatever the store
\* and the transport do, no handler ends by raising.
C24_NoErrorLeavesHandler ==
    \A u \in Users, read, write \in BOOLEAN, send \in SendOutcomes :
       /\ ~start_command(u, read, write, send).raised
       /\ \A s \in Shops : ~button_shop(u, s, read, write, send).raised
       /\ \A s \in Shops : ~handle_add_category(u, s, read, send).raised
       /\ \A t \in FlowTexts : ~handle_text_message(u, t, read, write, send).raised

\* the skip keyword as typed
SkipTexts == {T_skip, T_Skip}

\* two results leave the same sessions and the same store
SameState(r1, r2) ==
    r1.sessions = r2.sessions /\ r1.categories = r2.categories /\ r1.products = r2.products

\* The skip shortcuts against the typed keyword, for the flow the text is
\* routed to, under the transport outcomes `sends`.
SkipShortcutAsTyped(sends) ==
    \A u \in Users, t \in SkipTexts, read, write \in BOOLEAN, send \in sends :
       LET typed == handle_text_message(u, t, read, write, send)
       IN  /\ (CategoryFlow(u) # None /\ CategoryFlow(u)[1].step = "description")
                => SameState(button_skip_category_desc(u, CategoryFlow(u)[1].shop_id, send), typed)
           /\ (CategoryFlow(u) # None /\ CategoryFlow(u)[1].step = "icon")
                => SameState(button_skip_category_icon(u, CategoryFlow(u)[1].shop_id, read, write, send), typed)
           /\ (CategoryFlow(u) = None /\ ProductFlow(u) # None /\ ProductFlow(u)[1].step = "description")
                => SameState(button_skip_product_desc(u, ProductFlow(u)[1].shop_id, send), typed)

C25_SkipShortcutAsTypedAnySend == SkipShortcutAsTyped(SendOutcomes)

C26_CacheInSync ==
    \A u \in Users :
       users[u] # None =>
          /\ db_users[u] # None
          /\ users[u][1].last_shop_id = db_users[u][1].last_shop_id
          /\ users[u][1].shops = db_users[u][1].shops

\* C27, as stated: an order request persists at most one order, and only
\* when it succeeds: a call that ends with the error reply to the customer has
\* created no order document.
C27_OrderOnlyOnSuccess ==
    \A u \in Users, s \in Shops, pid \in ProductIds, c \in OrderCalls :
       LET r == Ordered(orders, u, s, pid, c)
       IN  /\ Len(r.orders) <= Len(orders) + 1
           /\ SubSeq(r.orders, 1, Len(orders)) = orders
           /\ ErrorReplied(r) => r.orders = orders

\* C30, as stated: every order persisted by handle_order_request for a shop
\* that has a cashier-role assignment is followed, within the same event, by a
\* notification send to that cashier's chat (delivered or not).
C30_PersistedOrderNotified ==
    \A u \in Users, s \in Shops, pid \in ProductIds, c \in OrderCalls :
       LET r == Ordered(orders, u, s, pid, c)
       IN  (Len(r.orders) = Len(orders) + 1 /\ CashierChat(departments, s, 1) # None)
           => r.sent_to = CashierChat(departments, s, 1)

\* the position of a step in the sequence of its flow kind
Position(step) ==
    CASE step = "name" -> 1
      [] step = "description" -> 2
      [] step \in {"icon", "price"} -> 3
      [] step = "stock" -> 4

\* the flow of kind k that r leaves to u is not at an earlier step than now
NotEarlier(r, u, k) ==
    (user_sessions[u][k] # None /\ r.sessions[u][k] # None)
       => Position(r.sessions[u][k][1].step) >= Position(user_sessions[u][k][1].step)

\* C28, as stated: flows are strictly linear: within one flow the step never
\* moves to an earlier position of its sequence (name, description, icon;
\* name, description, price, stock), whatever text or button press the user
\* delivers, the buttons of earlier prompts included.
C28_StepNeverMovesBack ==
    \A u \in Users, k \in FlowKinds, s \in Shops, read, write \in BOOLEAN, send \in SendOutcomes :
       /\ \A t \in FlowTexts \cup SkipTexts : NotEarlier(handle_text_message(u, t, read, write, send), u, k)
       /\ NotEarlier(button_skip_category_desc(u, s, send), u, k)
       /\ NotEarlier(button_skip_category_icon(u, s, read, write, send), u, k)
       /\ NotEarlier(button_skip_product_desc(u, s, send), u, k)

\* the flow of u a text is routed to is at step name
AtStepName(u) ==
    \/ CategoryFlow(u) # None /\ CategoryFlow(u)[1].step = "name"
    \/ CategoryFlow(u) = None /\ ProductFlow(u) # None /\ ProductFlow(u)[1].step = "name"

\* C29, as stated: at step name of either flow kind only a non-empty text is
\* accepted: a message whose text is empty after trimming leaves the flow at
\* step name with no field set (the replies being delivered), and no stored
\* category or product has an empty name.
C29_EmptyNameRejected ==
    /\ \A u \in Users : AtStepName(u) =>
          \A read, write \in BOOLEAN :
             LET r == handle_text_message(u, T_blank, read, write, Delivered)
             IN  r.sessions = user_sessions /\ r.categories = categories /\ r.products = products
    /\ \A cid \in DOMAIN categories : categories[cid].name # T_empty
    /\ \A pid \in DOMAIN products : products[pid].name # T_empty

\* C31, as stated: when a user whose most recent shop visit in this process
\* was to an existing shop S sends /start, the reply is the shop menu of S and
\* not the welcome list of shops (store and transport answering).
C31_StartShowsLastShop ==
    \A u \in Users, s \in Shops :
       (/\ users[u] # None
        /\ users[u][1].last_shop_id = Some(s)
        /\ get_shop_data(s, TRUE) # None)
       => start_command(u, TRUE, TRUE, Delivered).replies = <<"shop_menu">>

\* a flow as the add handler leaves it: at step name, for shop s, no field
\* collected
FreshFlow(flow, s) ==
    /\ flow.step = "name" /\ flow.shop_id = s
    /\ flow.name = None /\ flow.description = None
    /\ "icon" \in DOMAIN flow => flow.icon = None
    /\ "price" \in DOMAIN flow => flow.price = None /\ flow.stock = None

\* the add-product button is accepted: the check passes and the category is
\* one the shop lists
ProductAddAccepted(u, s, cid, read, cread) ==
    /\ PassesCheck(u, s, read)
    /\ cid # None
    /\ cread /\ cid[1] \in DOMAIN categories /\ categories[cid[1]].shopId = s

\* C32: the add action of a flow kind, invoked while the user has a flow of
\* that kind, replaces it: afterwards the user has one flow of that kind, at
\* step name, for the shop (and category) of the button, with none of the
\* fields of the replaced flow, and nothing is written to the store, so the
\* replaced flow never commits.  The other kind and the other users keep their
\* flows.  (The add action is the one the handler accepts: a press that is
\* answered with the permission or category message leaves the flow as it
\* was.)
C32_AddReplacesFlow ==
    \A u \in Users, s \in Shops, read \in BOOLEAN, send \in SendOutcomes :
       /\ CategoryFlow(u) # None =>
             LET r == handle_add_category(u, s, read, send)
                 after == r.sessions[u].adding_category
             IN  /\ r.categories = categories /\ r.products = products
                 /\ \A v \in Users : v # u => r.sessions[v] = user_sessions[v]
                 /\ r.sessions[u].adding_product = ProductFlow(u)
                 /\ IF PassesCheck(u, s, read)
                    THEN after # None /\ FreshFlow(after[1], s)
                    ELSE after = CategoryFlow(u)
       /\ ProductFlow(u) # None =>
             \A cid \in ButtonCategories, cread \in BOOLEAN :
                LET r == handle_add_product(u, s, cid, read, cread, send)
                    after == r.sessions[u].adding_product
                IN  /\ r.categories = categories /\ r.products = products
                    /\ \A v \in Users : v # u => r.sessions[v] = user_sessions[v]
                    /\ r.sessions[u].adding_category = CategoryFlow(u)
                    /\ IF ProductAddAccepted(u, s, cid, read, cread)
                       THEN /\ after # None /\ FreshFlow(after[1], s)
                            /\ after[1].category_id = cid[1]
                            /\ after[1].category_name = categories[cid[1]].name
                       ELSE after = ProductFlow(u)

\* u1 has a category flow at step icon with its name collected: Add Category
\* pressed again leaves a flow at step name without it
C32_Witness ==
    /\ CategoryFlow("u1") # None
    /\ CategoryFlow("u1")[1].step = "icon"
    /\ CategoryFlow("u1")[1].name # None
    /\ LET r == handle_add_category("u1", "s1", TRUE, Delivered)
       IN  r.sessions["u1"].adding_category = Some(NewCategoryFlow("s1"))

\* the flows of every user but u
OthersFlows(ss, u) == [v \in Users \ {u} |-> ss[v]]
\* the cached profile of every user but u
OthersProfiles(us, u) == [v \in Users \ {u} |-> us[v]]

\* a flow handler run for u leaves the flows of the others
KeepsOthersFlows(r, u) == OthersFlows(r.sessions, u) = OthersFlows(user_sessions, u)
\* a navigation handler run for u leaves the cached profiles of the others
KeepsOthersProfiles(r, u) == OthersProfiles(r.users, u) = OthersProfiles(users, u)

\* C33: an event of one user, in any interleaving with the events of another
\* (the handlers run one at a time), never creates, advances or clears a flow
\* of another user and never changes another user's cached profile, whatever
\* the store and the transport do: every handler writes the sessions and the
\* profile of the user of its event only.
C33_UsersIsolated ==
    \A u \in Users, s \in Shops, read, write \in BOOLEAN, send \in SendOutcomes :
       /\ KeepsOthersProfiles(start_command(u, read, write, send), u)
       /\ KeepsOthersProfiles(button_shop(u, s, read, write, send), u)
       /\ \A id \in 1..(MaxCategories + 1) :
             /\ KeepsOthersProfiles(send_category_products(u, s, id, read, send), u)
             /\ KeepsOthersProfiles(send_product_details(u, s, id, read, send), u)
       /\ KeepsOthersFlows(handle_add_category(u, s, read, send), u)
       /\ \A cid \in ButtonCategories, cread \in BOOLEAN :
             KeepsOthersFlows(handle_add_product(u, s, cid, read, cread, send), u)
       /\ \A t \in CategoryTexts("u1") \cup FlowTexts :
             KeepsOthersFlows(handle_text_message(u, t, read, write, send), u)
       /\ KeepsOthersFlows(button_skip_category_desc(u, s, send), u)
       /\ KeepsOthersFlows(button_skip_category_icon(u, s, read, write, send), u)
       /\ KeepsOthersFlows(button_skip_product_desc(u, s, send), u)

\* both users are cached and in a category flow, u2 at step icon after two
\* texts, u1 at step name: the text u2 sends next commits and clears the
\* flow of u2 while u1 stays at step name
C33_Witness ==
    /\ users["u1"] # None /\ users["u2"] # None
    /\ CategoryFlow("u1") # None /\ CategoryFlow("u1")[1].step = "name"
    /\ CategoryFlow("u2") # None /\ CategoryFlow("u2")[1].step = "icon"
    /\ LET r == handle_text_message("u2", T_skip, TRUE, TRUE, Delivered)
       IN  /\ r.sessions["u2"].adding_category = None
           /\ Len(r.categories) = Len(categories) + 1
           /\ r.sessions["u1"] = user_sessions["u1"]

\* C34, as stated: the skip-icon shortcut commits a category only when the
\* category flow is at step icon: pressed while the flow is at step name or
\* description (a button of an earlier prompt) it persists no category and
\* neither clears nor advances the flow, whatever the store does (the replies
\* being delivered).
C34_SkipIconOnlyAtIcon ==
    \A u \in Users, s \in Shops, read, write \in BOOLEAN :
       (CategoryFlow(u) # None /\ CategoryFlow(u)[1].step \in {"name", "description"})
       => LET r == button_skip_category_icon(u, s, read, write, Delivered)
          IN  /\ r.categories = categories
              /\ r.sessions[u].adding_category # None
              /\ r.sessions[u].adding_category[1].step = CategoryFlow(u)[1].step

\* the texts and the skip keyword a user may type in the flows of Spec
TypedTexts == FlowTexts \cup SkipTexts

\* the steps that follow the name step
AfterName == {"description", "icon", "price", "stock"}

\* the document an event appended to a collection
Appended(before, after) == after[Len(after)]

\* r, the result of an event of u, wrote a category with the name the flow of
\* u had collected, or wrote none
CategoryNamedByFlow(r, u) ==
    r.categories # categories
       => /\ Len(r.categories) = Len(categories) + 1
          /\ CategoryFlow(u) # None
          /\ CategoryFlow(u)[1].name # None
          /\ Appended(categories, r.categories).name = CategoryFlow(u)[1].name[1]

\* r, the result of the text t of u, wrote a product with the name and the
\* price the flow of u had collected and the stock t gives, or wrote none
ProductNamedByFlow(r, u, t) ==
    r.products # products
       => /\ Len(r.products) = Len(products) + 1
          /\ ProductFlow(u) # None
          /\ ProductFlow(u)[1].name # None /\ ProductFlow(u)[1].price # None
          /\ ProductFlow(u)[1].step = "stock"
          /\ Appended(products, r.products).name = ProductFlow(u)[1].name[1]
          /\ Appended(products, r.products).price = ProductFlow(u)[1].price[1]
          /\ Appended(products, r.products).stock = ParseInt(Strip(t)).v

\* the flow of kind k that r leaves to u has the field f it had, unless the
\* event was the text t typed at step `step`, which sets it
FieldSetAtStep(r, u, k, f, step, typed) ==
    (user_sessions[u][k] # None /\ r.sessions[u][k] # None /\ r.sessions[u][k][1][f] # user_sessions[u][k][1][f])
       => typed /\ user_sessions[u][k][1].step = step

\* C35: every category or product a flow persists carries the name that flow
\* collected at its name step (a product also the price collected at its
\* price step and the stock typed at its stock step): the fields are set by
\* the text typed at their step and by nothing else, and a flow without name
\* - its name step bypassed by a skip button - persists nothing, whatever the
\* store and the transport do.
C35_PersistedNameCollected ==
    \A u \in Users, s \in Shops, read, write \in BOOLEAN, send \in SendOutcomes :
       /\ \A t \in TypedTexts :
             LET r == handle_text_message(u, t, read, write, send)
             IN  /\ CategoryNamedByFlow(r, u) /\ ProductNamedByFlow(r, u, t)
                 /\ \A k \in FlowKinds : FieldSetAtStep(r, u, k, "name", "name", r.sessions[u][k][1].name = Some(Strip(t)))
                 /\ FieldSetAtStep(r, u, "adding_product", "price", "price", TRUE)
       /\ LET r == button_skip_category_icon(u, s, read, write, send)
          IN  /\ CategoryNamedByFlow(r, u) /\ r.products = products
              /\ FieldSetAtStep(r, u, "adding_category", "name", "name", FALSE)
       /\ LET r == button_skip_category_desc(u, s, send)
          IN  /\ r.categories = categories /\ r.products = products
              /\ FieldSetAtStep(r, u, "adding_category", "name", "name", FALSE)
       /\ LET r == button_skip_product_desc(u, s, send)
          IN  /\ r.categories = categories /\ r.products = products
              /\ FieldSetAtStep(r, u, "adding_product", "name", "name", FALSE)
              /\ FieldSetAtStep(r, u, "adding_product", "price", "price", FALSE)

\* the category flow of u1 is at step icon without a name, the description
\* shortcut having been pressed at step name: neither the typed icon nor the
\* icon shortcut persists a category
C35_Witness ==
    /\ CategoryFlow("u1") # None
    /\ CategoryFlow("u1")[1].step = "icon"
    /\ CategoryFlow("u1")[1].name = None
    /\ Len(categories) < MaxCategories
    /\ handle_text_message("u1", T_20, TRUE, TRUE, Delivered).categories = categories
    /\ button_skip_category_icon("u1", "s1", TRUE, TRUE, Delivered).categories = categories

\* the replies of the product flow that ask for the same input again
ProductReprompts == {"invalid_price", "invalid_stock"}

\* C36: while a user has a category flow and a product flow, every text is
\* consumed by the category flow alone: the product flow keeps its step and
\* its fields and no product is written, whatever the store and the transport
\* do, also by the text that ends the category flow.  Once the category flow
\* is absent the text goes to the product flow: it writes no category and
\* (the replies being delivered) moves the product flow or is answered with
\* its re-prompt.
C36_CategoryFlowTakesText ==
    \A u \in Users, t \in TypedTexts, read, write \in BOOLEAN :
       /\ (CategoryFlow(u) # None /\ ProductFlow(u) # None) =>
             \A send \in SendOutcomes :
                LET r == handle_text_message(u, t, read, write, send)
                IN  /\ r.sessions[u].adding_product = ProductFlow(u)
                    /\ r.products = products
                    /\ send = Delivered =>
                          \/ r.sessions[u].adding_category # CategoryFlow(u)
                          \/ r.categories # categories
       /\ (CategoryFlow(u) = None /\ ProductFlow(u) # None) =>
             LET r == handle_text_message(u, t, read, write, Delivered)
             IN  /\ r.categories = categories
                 /\ r.sessions[u].adding_category = None
                 /\ \/ r.sessions[u].adding_product # ProductFlow(u)
                    \/ r.replies # <<>> /\ r.replies[1] \in ProductReprompts

\* u1 has a category flow at step icon and a product flow at step price: the
\* text 20 commits the category, the product flow stays at step price without
\* a price
C36_Witness ==
    /\ CategoryFlow("u1") # None /\ CategoryFlow("u1")[1].step = "icon" /\ CategoryFlow("u1")[1].name # None
    /\ ProductFlow("u1") # None /\ ProductFlow("u1")[1].step = "price"
    /\ Len(categories) < MaxCategories
    /\ LET r == handle_text_message("u1", T_20, TRUE, TRUE, Delivered)
       IN  /\ r.sessions["u1"].adding_category = None
           /\ Len(r.categories) = Len(categories) + 1
           /\ r.sessions["u1"].adding_product = ProductFlow("u1")

\* r, the result of an event of u, wrote its document for the shop of the
\* flow of kind k that u had, or wrote none
WrittenForFlowShop(r, u) ==
    /\ r.categories # categories
          => CategoryFlow(u) # None /\ Appended(categories, r.categories).shopId = CategoryFlow(u)[1].shop_id
    /\ r.products # products
          => ProductFlow(u) # None /\ Appended(products, r.products).shopId = ProductFlow(u)[1].shop_id

\* r leaves the flows of u for the shops they were started for
KeepsFlowShop(r, u) ==
    \A k \in FlowKinds :
       (user_sessions[u][k] # None /\ r.sessions[u][k] # None)
          => r.sessions[u][k][1].shop_id = user_sessions[u][k][1].shop_id

\* C37: every category or product a flow persists has the shopId of the shop
\* the flow was started for, a shop whose ownership check the user passed at
\* the add button (ownership does not change in this scenario): every flow is
\* for such a shop, texts and skip buttons leave the shop of a flow as it is,
\* and the document is written for it, whatever shop the payload of the skip
\* button names and whatever the store and the transport do.
C37_WrittenToShopOfFlow ==
    \A u \in Users :
       /\ \A k \in FlowKinds : user_sessions[u][k] # None => PassesCheck(u, user_sessions[u][k][1].shop_id, TRUE)
       /\ \A s \in Shops, read, write \in BOOLEAN, send \in SendOutcomes :
             /\ \A t \in TypedTexts :
                   LET r == handle_text_message(u, t, read, write, send)
                   IN  WrittenForFlowShop(r, u) /\ KeepsFlowShop(r, u)
             /\ LET r == button_skip_category_icon(u, s, read, write, send)
                IN  WrittenForFlowShop(r, u) /\ KeepsFlowShop(r, u)
             /\ LET r == button_skip_category_desc(u, s, send)
                IN  WrittenForFlowShop(r, u) /\ KeepsFlowShop(r, u)
             /\ LET r == button_skip_product_desc(u, s, send)
                IN  WrittenForFlowShop(r, u) /\ KeepsFlowShop(r, u)

\* u1, owner of s1 and not of s2, has a category flow for s1 at step icon:
\* the icon shortcut with the payload of s2 writes the category to s1
C37_Witness ==
    /\ CategoryFlow("u1") # None
    /\ CategoryFlow("u1")[1].step = "icon" /\ CategoryFlow("u1")[1].name # None
    /\ CategoryFlow("u1")[1].shop_id = "s1"
    /\ ~PassesCheck("u1", "s2", TRUE)
    /\ Len(categories) < MaxCategories
    /\ LET r == button_skip_category_icon("u1", "s2", TRUE, TRUE, Delivered)
       IN  Len(r.categories) = Len(categories) + 1 /\ r.categories[Len(r.categories)].shopId = "s1"

\* r, the result of an event of u, wrote a document only for a shop whose
\* ownership check u passes now
WrittenByOwner(r, u) ==
    /\ r.categories # categories => PassesCheck(u, Appended(categories, r.categories).shopId, TRUE)
    /\ r.products # products => PassesCheck(u, Appended(products, r.products).shopId, TRUE)

\* C38, as stated: a flow persists a category or product only if the
\* committing user passes the ownership check for the flow's shop at the
\* moment of the commit: a user whose ownership was revoked after the flow
\* started cannot complete it (store and transport answering).
C38_CommitNeedsOwnership ==
    \A u \in Users :
       /\ \A t \in FlowTexts : WrittenByOwner(handle_text_message(u, t, TRUE, TRUE, Delivered), u)
       /\ \A s \in Shops : WrittenByOwner(button_skip_category_icon(u, s, TRUE, TRUE, Delivered), u)

\* the number of texts a category flow still takes: 3 at step name, 2 at
\* description, 1 at icon, 0 when it is absent
TextsLeft(flow) ==
    IF flow = None THEN 0
    ELSE CASE flow[1].step = "name" -> 3
           [] flow[1].step = "description" -> 2
           [] OTHER -> 1

\* what a user may type: the texts of the flows, the skip keyword, a blank
AnyTexts == TypedTexts \cup {T_Drinks, T_blank}

\* C39: a category flow cannot stay active forever under input: in every
\* reachable state with an active category flow, the states reached through
\* skip buttons included, a text message of its user - whatever its content
\* and whatever the store answers, the replies being delivered - takes the
\* flow one step nearer to its end, so that it is absent after at most three
\* texts: after the text the flow needs fewer texts than before, and at step
\* icon it is absent.
C39_CategoryFlowEnds ==
    \A u \in Users :
       CategoryFlow(u) # None =>
          /\ TextsLeft(CategoryFlow(u)) <= 3
          /\ \A t \in AnyTexts, read, write \in BOOLEAN :
                LET r == handle_text_message(u, t, read, write, Delivered)
                IN  TextsLeft(r.sessions[u].adding_category) < TextsLeft(CategoryFlow(u))

\* the category flow of u1 was taken to step icon by the description shortcut
\* pressed at step name: the next text ends it with the error message, no
\* category written
C39_Witness ==
    /\ CategoryFlow("u1") # None
    /\ CategoryFlow("u1")[1].step = "icon"
    /\ CategoryFlow("u1")[1].name = None
    /\ LET r == handle_text_message("u1", T_Drinks, TRUE, TRUE, Delivered)
       IN  /\ r.sessions["u1"].adding_category = None
           /\ r.replies = <<"error">>
           /\ r.categories = categories

\* C40, as stated: for a shop that starts with no categories and whose
\* categories are never deleted, the events handled one at a time, the
\* categories committed by category flows have pairwise distinct order
\* values, the k-th committed category the order k-1, also when a read of the
\* store fails during a commit.
C40_OrdersDistinct ==
    \A s \in Shops :
       LET ids == IdsWhere(categories, s, 1)
       IN  /\ \A k \in DOMAIN ids : categories[ids[k]].order = k - 1
           /\ \A j, k \in DOMAIN ids : j # k => categories[ids[j]].order # categories[ids[k]].order

====
